---------------------------- MODULE Spec2Model ----------------------------
(***************************************************************************)
(* Route optimisation engine of the ship navigator.                        *)
(*                                                                         *)
(* Two families of code are modelled, as in the repository:                *)
(*   - core_optimizer_latlng.py  (lat/lng coordinates, datetime clock)     *)
(*   - core_optimizer.py         (pixel coordinates, minutes as floats)    *)
(*                                                                         *)
(* Numbers.  Floats are modelled by integers at a fixed resolution:        *)
(*   lat/lng   : 1 unit  = 0.0001 degree (half of GRID_RESOLUTION)         *)
(*   distance  : 1 unit  = 0.001 NM; one degree is 60 NM on both axes      *)
(*               (the cos(latitude) factor of the haversine is dropped at  *)
(*               harbour scale), so 1 coordinate unit is 6 distance units  *)
(*   datetime  : 1 tick  = 1 minute                                        *)
(*   pixels    : 1 unit  = 1 pixel; pixel clock: 1 tick = 0.25 minute      *)
(* Divisions round down to the resolution.                                 *)
(* Python's None is the empty tuple << >>.                                 *)
(***************************************************************************)
EXTENDS Integers, Sequences, FiniteSets, TLC

None == << >>

Abs(x) == IF x < 0 THEN -x ELSE x
Min2(a, b) == IF a <= b THEN a ELSE b
Max2(a, b) == IF a >= b THEN a ELSE b

RECURSIVE IsqrtIn(_, _, _)
IsqrtIn(n, lo, hi) ==
  IF lo >= hi THEN lo
  ELSE LET mid == (lo + hi + 1) \div 2
       IN IF mid * mid <= n THEN IsqrtIn(n, mid, hi) ELSE IsqrtIn(n, lo, mid - 1)

\* math.sqrt / np.sqrt, rounded down
Isqrt(n) == IsqrtIn(n, 0, 46340)

Last(s) == s[Len(s)]

(***************************************************************************)
(* core_optimizer_latlng.py: geodesy                                       *)
(***************************************************************************)

\* DEFAULT speed substituted for a non-positive speed (knots)
DefaultSpeed == 10

\* haversine_distance in 0.001 NM between two coordinates given in 0.0001 degree
haversine_distance(a, b) ==
  Isqrt(36 * ((a[1] - b[1]) * (a[1] - b[1]) + (a[2] - b[2]) * (a[2] - b[2])))

\* interpolate_position with fraction = num / den
interpolate_position(a, b, num, den) ==
  << a[1] + ((b[1] - a[1]) * num) \div den,
     a[2] + ((b[2] - a[2]) * num) \div den >>

\* timedelta(hours = distance_nm / speed) in minutes
TravelMinutes(distance, speed) == (distance * 60) \div (1000 * speed)

(***************************************************************************)
(* core_optimizer_latlng.py: ShipRoute                                     *)
(* A route is a record                                                     *)
(*   [path, departure_time, is_number, speed_knots, path_length_nm,        *)
(*    timestamps]                                                          *)
(* is_number tells a departure_time given as minutes-from-now (int/float)  *)
(* from a datetime.                                                        *)
(***************************************************************************)

ShipRoute(path, departure_time, is_number, speed) ==
  [ path |-> path, departure_time |-> departure_time, is_number |-> is_number,
    speed_knots |-> speed, path_length_nm |-> 0, timestamps |-> None ]

\* the speed used for a leg: a zero or negative speed falls back to 10 knots
LegSpeed(speed_knots) == IF speed_knots > 0 THEN speed_knots ELSE DefaultSpeed

RECURSIVE WalkPathNotCumulative(_, _, _, _, _)
\* WalkPath with each leg's time added to the departure time instead of the running time
WalkPathNotCumulative(path, speed_knots, i, ts, len) ==
  IF i > Len(path) - 1 THEN << ts, len >>
  ELSE LET distance_nm == haversine_distance(path[i], path[i + 1])
           travel == TravelMinutes(distance_nm, LegSpeed(speed_knots))
       IN WalkPathNotCumulative(path, speed_knots, i + 1, Append(ts, ts[1] + travel),
                                len + distance_nm)

RECURSIVE WalkPath(_, _, _, _, _)
\* the for loop of calculate_timestamps from leg i on: <<timestamps, path_length_nm>>
WalkPath(path, speed_knots, i, ts, len) ==
  IF i > Len(path) - 1 THEN << ts, len >>
  ELSE LET distance_nm == haversine_distance(path[i], path[i + 1])
           travel == TravelMinutes(distance_nm, LegSpeed(speed_knots))
       IN WalkPath(path, speed_knots, i + 1, Append(ts, Last(ts) + travel), len + distance_nm)

\* calculate_timestamps without the reset of path_length_nm before the loop
calculate_timestamps_accumulating(r, now) ==
  IF r.path = << >> THEN r
  ELSE LET dep == IF r.is_number THEN now + r.departure_time ELSE r.departure_time
           w == WalkPath(r.path, r.speed_knots, 1, << dep >>, r.path_length_nm)
       IN [ r EXCEPT !.departure_time = dep, !.is_number = FALSE,
                     !.timestamps = w[1], !.path_length_nm = w[2] ]

calculate_timestamps(r, now) ==
  IF r.path = << >> THEN r
  ELSE LET dep == IF r.is_number THEN now + r.departure_time ELSE r.departure_time
           w == WalkPath(r.path, r.speed_knots, 1, << dep >>, 0)
       IN [ r EXCEPT !.departure_time = dep, !.is_number = FALSE,
                     !.timestamps = w[1], !.path_length_nm = w[2] ]

\* the for loop of get_position_at_time: the first segment whose time span holds t
RECURSIVE FindSegment(_, _, _)
FindSegment(r, t, i) ==
  IF i > Len(r.timestamps) - 1 THEN Last(r.path)
  ELSE IF r.timestamps[i] <= t /\ t < r.timestamps[i + 1]
       THEN LET segment_duration == r.timestamps[i + 1] - r.timestamps[i]
            IN IF segment_duration = 0 THEN r.path[i]
               ELSE interpolate_position(r.path[i], r.path[i + 1],
                                         t - r.timestamps[i], segment_duration)
       ELSE FindSegment(r, t, i + 1)

\* get_position_at_time without the test against the departure time
GetPositionNoDepartureTest(r, t) ==
  IF r.timestamps = None THEN None
  ELSE IF t >= Last(r.timestamps) THEN Last(r.path)
  ELSE FindSegment(r, t, 1)

get_position_at_time(r, t) ==
  IF r.timestamps = None \/ t < r.departure_time THEN None
  ELSE IF t >= Last(r.timestamps) THEN Last(r.path)
  ELSE FindSegment(r, t, 1)


(***************************************************************************)
(* Plane geometry on integer coordinates (shapely, for rectangles).        *)
(* A rectangle is [lo |-> <<a1, b1>>, hi |-> <<a2, b2>>] with a1 < a2 and  *)
(* b1 < b2, in the axis order of the points it is compared with.          *)
(***************************************************************************)

Dist2(p, q) == (p[1] - q[1]) * (p[1] - q[1]) + (p[2] - q[2]) * (p[2] - q[2])

Cross(o, a, b) == (a[1] - o[1]) * (b[2] - o[2]) - (a[2] - o[2]) * (b[1] - o[1])

Dot(o, a, b) == (a[1] - o[1]) * (b[1] - o[1]) + (a[2] - o[2]) * (b[2] - o[2])

Sign(x) == IF x > 0 THEN 1 ELSE IF x < 0 THEN -1 ELSE 0

\* c lies in the bounding box of segment a-b
InBox(a, b, c) ==
  /\ Min2(a[1], b[1]) <= c[1] /\ c[1] <= Max2(a[1], b[1])
  /\ Min2(a[2], b[2]) <= c[2] /\ c[2] <= Max2(a[2], b[2])

\* closed segments p-q and a-b share a point
SegmentsIntersect(p, q, a, b) ==
  LET d1 == Sign(Cross(a, b, p))
      d2 == Sign(Cross(a, b, q))
      d3 == Sign(Cross(p, q, a))
      d4 == Sign(Cross(p, q, b))
  IN \/ (d1 * d2 < 0 /\ d3 * d4 < 0)
     \/ (d1 = 0 /\ InBox(a, b, p))
     \/ (d2 = 0 /\ InBox(a, b, q))
     \/ (d3 = 0 /\ InBox(p, q, a))
     \/ (d4 = 0 /\ InBox(p, q, b))

Corners(R) == << R.lo, << R.hi[1], R.lo[2] >>, R.hi, << R.lo[1], R.hi[2] >> >>

\* Polygon.contains(Point): the point is in the interior
RectContains(R, p) ==
  R.lo[1] < p[1] /\ p[1] < R.hi[1] /\ R.lo[2] < p[2] /\ p[2] < R.hi[2]

RectCovers(R, p) ==
  R.lo[1] <= p[1] /\ p[1] <= R.hi[1] /\ R.lo[2] <= p[2] /\ p[2] <= R.hi[2]

\* squared distance from a point to the (closed) rectangle
RectDist2(R, p) ==
  LET d1 == Max2(Max2(R.lo[1] - p[1], 0), p[1] - R.hi[1])
      d2 == Max2(Max2(R.lo[2] - p[2], 0), p[2] - R.hi[2])
  IN d1 * d1 + d2 * d2

\* LineString.intersects(Polygon): the closed segment meets the closed rectangle
RectIntersectsLine(R, p, q) ==
  LET c == Corners(R)
  IN \/ RectCovers(R, p)
     \/ RectCovers(R, q)
     \/ \E k \in 1..4 : SegmentsIntersect(p, q, c[k], c[(k % 4) + 1])

\* the point c is within sqrt(num/den) of the inside of segment p-q (its foot falls on it)
NearSegment(p, q, c, num, den) ==
  LET len2 == Dist2(p, q)
      dt == Dot(p, q, c)
      cr == Abs(Cross(p, q, c))
      bound == (Isqrt((num * len2) \div den) + 1)
  IN /\ len2 > 0
     /\ 0 <= dt /\ dt <= len2
     /\ cr <= bound
     /\ den * cr * cr <= num * len2

\* the closed segment p-q comes within sqrt(num/den) of the rectangle
RectNearLine(R, p, q, num, den) ==
  \/ RectIntersectsLine(R, p, q)
  \/ den * RectDist2(R, p) <= num
  \/ den * RectDist2(R, q) <= num
  \/ \E k \in 1..4 : NearSegment(p, q, Corners(R)[k], num, den)

(***************************************************************************)
(* core_optimizer.py: pixel ShipRoute and CollisionChecker                 *)
(* A pixel route is [path, start, goal, departure_time, speed_knots,       *)
(* timestamps]; times are ticks of 0.25 minute.                            *)
(***************************************************************************)

PIXEL_TO_METERS == 10
METERS_PER_NM == 1852
TicksPerMinute == 4

PxShipRoute(start, goal, path, departure_time, speed) ==
  [ start |-> start, goal |-> goal, path |-> path, departure_time |-> departure_time,
    speed_knots |-> speed, timestamps |-> None ]

\* np.sqrt(dx**2 + dy**2) in pixels
PixelDistance(a, b) == Isqrt(Dist2(a, b))

\* distance_pixels / speed_pixels_per_minute, in ticks:
\* speed_pixels_per_minute = (speed_knots / 60) / (PIXEL_TO_METERS / 1852)
PxTravelTime(distance_pixels, speed_knots) ==
  (distance_pixels * 60 * PIXEL_TO_METERS * TicksPerMinute) \div (speed_knots * METERS_PER_NM)

RECURSIVE PxWalkPath(_, _, _, _)
PxWalkPath(path, speed_knots, i, ts) ==
  IF i > Len(path) - 1 THEN ts
  ELSE PxWalkPath(path, speed_knots, i + 1,
                  Append(ts, Last(ts) + PxTravelTime(PixelDistance(path[i], path[i + 1]), speed_knots)))

px_calculate_timestamps(r) ==
  IF r.path = << >> THEN r
  ELSE [ r EXCEPT !.timestamps = PxWalkPath(r.path, r.speed_knots, 1, << r.departure_time >>) ]

RECURSIVE PxFindSegment(_, _, _)
PxFindSegment(r, t, i) ==
  IF i > Len(r.timestamps) - 1 THEN Last(r.path)
  ELSE IF r.timestamps[i] <= t /\ t < r.timestamps[i + 1]
       THEN interpolate_position(r.path[i], r.path[i + 1],
                                 t - r.timestamps[i], r.timestamps[i + 1] - r.timestamps[i])
       ELSE PxFindSegment(r, t, i + 1)

px_get_position_at_time(r, t) ==
  IF r.path = << >> \/ r.timestamps = None THEN None
  ELSE IF t < r.timestamps[1] THEN None
  ELSE IF t >= Last(r.timestamps) THEN Last(r.path)
  ELSE PxFindSegment(r, t, 1)

\* safety_distance_nm = 0.5 as safety_distance_pixels = 0.5 / PIXEL_TO_NM = 92.6,
\* in tenths of a pixel
SafetyDistancePixels10 == 926

\* distance_pixels < self.safety_distance_pixels
IsCollision(pos1, pos2) ==
  100 * Dist2(pos1, pos2) < SafetyDistancePixels10 * SafetyDistancePixels10

\* time_step = 0.5 minute
TimeStep == 2

RECURSIVE ScanCollisionDropsOpen(_, _, _, _, _, _, _)
\* ScanCollision without the final append of an interval still open at end_time
ScanCollisionDropsOpen(ship1, ship2, t, end_time, in_collision, collision_start, intervals) ==
  IF t > end_time
  THEN intervals
  ELSE LET pos1 == px_get_position_at_time(ship1, t)
           pos2 == px_get_position_at_time(ship2, t)
           is_collision == pos1 # None /\ pos2 # None /\ IsCollision(pos1, pos2)
       IN IF pos1 = None \/ pos2 = None
          THEN ScanCollisionDropsOpen(ship1, ship2, t + TimeStep, end_time, in_collision,
                                      collision_start, intervals)
          ELSE IF is_collision /\ ~in_collision
          THEN ScanCollisionDropsOpen(ship1, ship2, t + TimeStep, end_time, TRUE, t, intervals)
          ELSE IF ~is_collision /\ in_collision
          THEN ScanCollisionDropsOpen(ship1, ship2, t + TimeStep, end_time, FALSE, collision_start,
                                      Append(intervals, << collision_start, t >>))
          ELSE ScanCollisionDropsOpen(ship1, ship2, t + TimeStep, end_time, in_collision,
                                      collision_start, intervals)

RECURSIVE ScanCollisionEveryStep(_, _, _, _, _, _, _)
\* ScanCollision without the merging: every unsafe sample is an interval of its own
ScanCollisionEveryStep(ship1, ship2, t, end_time, in_collision, collision_start, intervals) ==
  IF t > end_time
  THEN intervals
  ELSE LET pos1 == px_get_position_at_time(ship1, t)
           pos2 == px_get_position_at_time(ship2, t)
       IN IF pos1 # None /\ pos2 # None /\ IsCollision(pos1, pos2)
          THEN ScanCollisionEveryStep(ship1, ship2, t + TimeStep, end_time, FALSE,
                                      collision_start, Append(intervals, << t, t >>))
          ELSE ScanCollisionEveryStep(ship1, ship2, t + TimeStep, end_time, FALSE,
                                      collision_start, intervals)

RECURSIVE ScanCollision(_, _, _, _, _, _, _)
\* the while loop of check_collision from time t on
ScanCollision(ship1, ship2, t, end_time, in_collision, collision_start, intervals) ==
  IF t > end_time
  THEN IF in_collision THEN Append(intervals, << collision_start, end_time >>) ELSE intervals
  ELSE LET pos1 == px_get_position_at_time(ship1, t)
           pos2 == px_get_position_at_time(ship2, t)
       IN IF pos1 # None /\ pos2 # None
          THEN LET is_collision == IsCollision(pos1, pos2)
               IN IF is_collision /\ ~in_collision
                  THEN ScanCollision(ship1, ship2, t + TimeStep, end_time, TRUE, t, intervals)
                  ELSE IF ~is_collision /\ in_collision
                  THEN ScanCollision(ship1, ship2, t + TimeStep, end_time, FALSE, collision_start,
                                     Append(intervals, << collision_start, t >>))
                  ELSE ScanCollision(ship1, ship2, t + TimeStep, end_time, in_collision,
                                     collision_start, intervals)
          ELSE ScanCollision(ship1, ship2, t + TimeStep, end_time, in_collision,
                             collision_start, intervals)

\* check_collision scanning from the first route's departure
check_collision_from_first(ship1, ship2) ==
  IF ship1.timestamps = None \/ ship2.timestamps = None THEN << >>
  ELSE LET start_time == ship1.departure_time
           end_time == Min2(Last(ship1.timestamps), Last(ship2.timestamps))
       IN IF start_time >= end_time THEN << >>
          ELSE ScanCollision(ship1, ship2, start_time, end_time, FALSE, 0, << >>)

check_collision(ship1, ship2) ==
  IF ship1.timestamps = None \/ ship2.timestamps = None THEN << >>
  ELSE LET start_time == Max2(ship1.departure_time, ship2.departure_time)
           end_time == Min2(Last(ship1.timestamps), Last(ship2.timestamps))
       IN IF start_time >= end_time THEN << >>
          ELSE ScanCollision(ship1, ship2, start_time, end_time, FALSE, 0, << >>)


(***************************************************************************)
(* State                                                                   *)
(***************************************************************************)

VARIABLES
  \* a ShipRoute object and a query on it
  route_class,     \* "latlng" (core_optimizer_latlng.ShipRoute) or "pixel" (core_optimizer.ShipRoute)
  route,           \* the object's fields
  now,             \* datetime.now()
  route_pc,        \* "new" | "timed": calculate_timestamps has run
  query_time,      \* << t >>: the argument of the last get_position_at_time since the
                   \* timestamps were last derived, None before
  position         \* its result

route_vars == << route_class, route, now, route_pc, query_time, position >>

VARIABLES
  \* a call of CollisionChecker.check_collision (core_optimizer.py)
  ship1, ship2,    \* the two pixel routes
  cc_pc,           \* "idle" | "done": check_collision has returned for these routes
  collision_intervals  \* its result

cc_vars == << ship1, ship2, cc_pc, collision_intervals >>

VARIABLES
  \* a call of RouteOptimizer.optimize_departure_time (core_optimizer_latlng.py)
  new_ship,             \* the route to optimise
  existing_ships,       \* the committed routes, a sequence
  time_window_minutes,
  current_time,         \* datetime.now() read at the start of the call
  od_pc,                \* "call" | "loop" | "done"
  minutes_offset,       \* the loop variable
  best_time, min_conflicts, best_min_distance,
  evaluated,            \* history: << offset, conflicts, min_distance >> of each candidate tried
  optimal_time          \* the value returned, << minutes from now >>, None before

od_vars == << new_ship, existing_ships, time_window_minutes, current_time, od_pc,
              minutes_offset, best_time, min_conflicts, best_min_distance, evaluated,
              optimal_time >>

VARIABLES
  \* a call of RouteOptimizer.optimize_fixed_time (core_optimizer.py)
  fx_new_ship,          \* new_ship
  fx_existing_ships,    \* existing_ships, a sequence
  fx_pc,                \* "call" | "search" | "done"
  has_collision,
  collision_info,       \* the collision intervals of the original path
  check_times,
  fx_index,             \* position in the loops: << index into check_times, index into factors >>
  generated,            \* history: every alt_path find_alternative_path has returned
  solutions,            \* << detour, alt_path >>
  best_path             \* the value returned, << path >>, None before

fx_vars == << fx_new_ship, fx_existing_ships, fx_pc, has_collision, collision_info,
              check_times, fx_index, generated, solutions, best_path >>

VARIABLES
  \* a call of RouteOptimizer.find_path_astar (core_optimizer_latlng.py)
  obstacles,            \* collision_checker.obstacles, a set of rectangles
  start_pos,            \* (self.start_lat, self.start_lng)
  goal_pos,
  astar_pc,             \* "call" | "loop" | "done"
  open_set,             \* the heap, a sequence of nodes
  closed_set,           \* positions
  iteration,
  best_node, best_distance,
  astar_path,           \* the value returned, << path >>, None before
  astar_branch,         \* which return statement was taken
  simplify_input        \* << the list handed to simplify_path >>, None when it was not called

astar_vars == << obstacles, start_pos, goal_pos, astar_pc, open_set, closed_set, iteration,
                 best_node, best_distance, astar_path, astar_branch, simplify_input >>

VARIABLES
  \* a call of RouteOptimizer.optimize_route (core_optimizer_latlng.py); the call of
  \* find_path_astar it makes is the one of the variables above
  or_pc,                    \* "call" | "done" | "raised"
  or_speed,                 \* speed
  or_departure_time,        \* departure_time, a datetime
  or_allow_time_adjustment,
  or_existing_routes,       \* collision_checker.existing_routes, a sequence
  or_result                 \* the dict returned, or << the exception raised >>

or_vars == << or_pc, or_speed, or_departure_time, or_allow_time_adjustment,
              or_existing_routes, or_result >>

VARIABLES
  \* calls of find_path_astar on one RouteOptimizer (the route_optimizer of app.py)
  cq_obstacles,     \* collision_checker.obstacles
  self_start,       \* (self.start_lat, self.start_lng), None until a call has set it
  calls             \* the local variables of each call, by call number

cq_vars == << cq_obstacles, self_start, calls >>

VARIABLES
  \* the ship_routes table and the HTTP requests served (app.py)
  db_routes,        \* ship_id -> the row of the ship, None when there is none
  responses,        \* history: each request served, with the status code answered
  conflict_checked  \* history: << s, t >> when the route of s was handed to an optimizer
                    \* together with the route of t

api_vars == << db_routes, responses, conflict_checked >>

VARIABLES
  \* a call of CollisionChecker.is_position_safe or is_path_safe
  ps_obstacles,     \* collision_checker.obstacles
  ps_routes,        \* collision_checker.existing_routes
  ps_call,          \* the arguments of the last call, None before
  ps_samples,       \* the positions and times the sampling loop of the call ranges over
  ps_result         \* what it returned

ps_vars == << ps_obstacles, ps_routes, ps_call, ps_samples, ps_result >>

VARIABLES
  \* a call of RouteOptimizer.simplify_path
  sp_obstacles,     \* collision_checker.obstacles
  sp_path,          \* the path passed in
  sp_result         \* << the path returned >>, None before the call

sp_vars == << sp_obstacles, sp_path, sp_result >>

VARIABLES
  \* a call of PathAdjuster._astar_with_temp_obstacles
  ta_start,           \* start, in pixels
  ta_goal,            \* goal, in pixels
  ta_temp_obstacles,  \* temp_obstacles, a set of cells
  ta_pc,              \* "call", "loop" or "done"
  ta_open_set,        \* open_set, as a set of << f_score, cell >>
  ta_known,           \* came_from and g_score, as a set of << cell, g, parent >>
  ta_visited,         \* visited
  ta_result           \* << what it returned >>, << >> before the return

ta_vars == << ta_start, ta_goal, ta_temp_obstacles, ta_pc, ta_open_set, ta_known, ta_visited,
              ta_result >>

more_vars == << sp_vars, ta_vars >>

ext_vars == << or_vars, cq_vars, api_vars, ps_vars, more_vars >>

vars == << route_vars, cc_vars, od_vars, fx_vars, astar_vars, ext_vars >>

OrIdle ==
  /\ or_pc = "off" /\ or_speed = 0 /\ or_departure_time = 0
  /\ or_allow_time_adjustment = FALSE /\ or_existing_routes = << >> /\ or_result = None

CqIdle == cq_obstacles = {} /\ self_start = None /\ calls = << >>

ApiIdle == db_routes = << >> /\ responses = << >> /\ conflict_checked = {}

PsIdle ==
  /\ ps_obstacles = {} /\ ps_routes = << >> /\ ps_call = None
  /\ ps_samples = << >> /\ ps_result = FALSE

SpIdle == sp_obstacles = {} /\ sp_path = << >> /\ sp_result = None

TaIdle ==
  /\ ta_start = << 0, 0 >> /\ ta_goal = << 0, 0 >> /\ ta_temp_obstacles = {} /\ ta_pc = "off"
  /\ ta_open_set = {} /\ ta_known = {} /\ ta_visited = {} /\ ta_result = << >>

MoreIdle == SpIdle /\ TaIdle

ExtIdle == OrIdle /\ CqIdle /\ ApiIdle /\ PsIdle /\ MoreIdle

AstarIdle ==
  /\ obstacles = {} /\ start_pos = None /\ goal_pos = None /\ astar_pc = "off"
  /\ open_set = << >> /\ closed_set = {} /\ iteration = 0 /\ best_node = None
  /\ best_distance = 0 /\ astar_path = None /\ astar_branch = "none"
  /\ simplify_input = None

FxIdle ==
  /\ fx_new_ship = None /\ fx_existing_ships = << >> /\ fx_pc = "off"
  /\ has_collision = FALSE /\ collision_info = << >> /\ check_times = << >>
  /\ fx_index = << 1, 1 >> /\ generated = << >> /\ solutions = << >> /\ best_path = None

OdIdle ==
  /\ new_ship = None /\ existing_ships = << >> /\ time_window_minutes = 0
  /\ current_time = 0 /\ od_pc = "off" /\ minutes_offset = 0 /\ best_time = 0
  /\ min_conflicts = 0 /\ best_min_distance = 0 /\ evaluated = << >>
  /\ optimal_time = None

RouteIdle ==
  /\ route_class = "none" /\ route = None /\ now = 0 /\ route_pc = "off"
  /\ query_time = None /\ position = None

CcIdle ==
  /\ ship1 = None /\ ship2 = None /\ cc_pc = "off" /\ collision_intervals = << >>

(***************************************************************************)
(* ShipRoute: calculate_timestamps and get_position_at_time                *)
(***************************************************************************)

MaxPathLen == 3
MaxQueryTime == 45

SeqsUpTo(S, n) == UNION { [1..k -> S] : k \in 0..n }

LLPoints == { << 0, 0 >>, << 0, 300 >>, << 400, 300 >> }
PxPoints == { << 0, 0 >>, << 100, 0 >>, << 100, 80 >> }

RouteInit ==
  /\ route_class \in { "latlng", "pixel" }
  /\ now = 3
  /\ \/ /\ route_class = "latlng"
        /\ \E path \in SeqsUpTo(LLPoints, MaxPathLen), is_number \in BOOLEAN,
              speed \in { -5, 0, 12 } :
             route = ShipRoute(path, 5, is_number, speed)
     \/ /\ route_class = "pixel"
        /\ \E path \in SeqsUpTo(PxPoints, MaxPathLen) :
             route = PxShipRoute(IF path = << >> THEN << 0, 0 >> ELSE path[1],
                                 IF path = << >> THEN << 0, 0 >> ELSE Last(path),
                                 path, 5, 12)
  /\ route_pc = "new"
  /\ query_time = None
  /\ position = None
  /\ CcIdle /\ OdIdle /\ FxIdle /\ AstarIdle /\ ExtIdle

CalculateTimestamps ==
  /\ route' = IF route_class = "latlng" THEN calculate_timestamps(route, now)
              ELSE px_calculate_timestamps(route)
  /\ route_pc' = "timed"
  /\ query_time' = None
  /\ position' = None
  /\ UNCHANGED << route_class, now, cc_vars, od_vars, fx_vars, astar_vars, ext_vars >>

GetPositionAtTime ==
  \E t \in 0..MaxQueryTime :
    /\ query_time' = << t >>
    /\ position' = IF route_class = "latlng" THEN get_position_at_time(route, t)
                   ELSE px_get_position_at_time(route, t)
    /\ UNCHANGED << route_class, route, now, route_pc, cc_vars, od_vars, fx_vars, astar_vars, ext_vars >>

RouteNext == CalculateTimestamps \/ GetPositionAtTime

SpecRoute == RouteInit /\ [][RouteNext]_vars


(***************************************************************************)
(* Properties of ShipRoute                                                 *)
(***************************************************************************)

\* C2: after calculate_timestamps on a route with a non-empty path and any speed,
\* there is one timestamp per waypoint, the first is the departure time and the
\* timestamps never decrease.
C2_TimestampsMonotone ==
  (route_class = "latlng" /\ route_pc = "timed" /\ route.path # << >>) =>
     /\ Len(route.timestamps) = Len(route.path)
     /\ route.timestamps[1] = route.departure_time
     /\ \A i \in 1..(Len(route.timestamps) - 1) :
          route.timestamps[i] <= route.timestamps[i + 1]

\* a three-waypoint route with a non-positive speed whose timestamps were derived
\* and advance on each leg
C2_Witness ==
  /\ route_class = "latlng" /\ route_pc = "timed"
  /\ Len(route.path) = 3 /\ route.speed_knots <= 0
  /\ route.timestamps[1] < route.timestamps[2]
  /\ route.timestamps[2] < route.timestamps[3]

\* q is the point of segment a-b at fraction e / d, rounded down to the coordinate
\* resolution, and lies within the segment's extent
AtFraction(q, a, b, e, d) ==
  /\ Len(q) = 2
  /\ \A k \in 1..2 :
       LET exact == a[k] * d + (b[k] - a[k]) * e
       IN q[k] * d <= exact /\ exact < (q[k] + 1) * d
  /\ InBox(a, b, q)

\* C3: on a route with derived timestamps a query before departure yields no
\* position, a query at or after the last timestamp yields the last waypoint, and
\* any other query yields the point of the active segment at the elapsed fraction,
\* never a point off the polyline.
C3_PositionAtTime ==
  (route_pc = "timed" /\ route.path # << >> /\ query_time # None) =>
     LET t == query_time[1]
         ts == route.timestamps
     IN /\ (t < ts[1]) => (position = None)
        /\ (t >= Last(ts)) => (position = Last(route.path))
        /\ (ts[1] <= t /\ t < Last(ts)) =>
             \E i \in 1..(Len(ts) - 1) :
                /\ ts[i] <= t /\ t < ts[i + 1]
                /\ AtFraction(position, route.path[i], route.path[i + 1],
                              t - ts[i], ts[i + 1] - ts[i])

\* a query strictly inside the second leg answered by a point strictly between its ends
C3_Witness ==
  /\ route_pc = "timed" /\ query_time # None /\ Len(route.path) = 3
  /\ route.timestamps[2] < query_time[1] /\ query_time[1] < route.timestamps[3]
  /\ position # None
  /\ position # route.path[2] /\ position # route.path[3]


(***************************************************************************)
(* CollisionChecker.check_collision on two pixel routes                    *)
(***************************************************************************)

CcPoints == { << 0, 100 >>, << 300, 100 >>, << 150, 0 >>, << 150, 300 >>,
              << 300, 192 >>, << 0, 192 >> }

CcPaths1 == { << << 0, 100 >>, << 300, 100 >> >>,
              << << 0, 100 >>, << 150, 0 >>, << 300, 100 >> >> }

CcPaths2 == { p \in { << a, b >> : a, b \in CcPoints } : p[1] # p[2] }

CcInit ==
  /\ \E p1 \in CcPaths1 :
       ship1 = PxShipRoute(p1[1], Last(p1), p1, 0, 12)
  /\ \E p2 \in CcPaths2, d2 \in { 0, 1, 3 }, s2 \in { 12, 25 } :
       ship2 = PxShipRoute(p2[1], Last(p2), p2, d2, s2)
  /\ cc_pc = "idle"
  /\ collision_intervals = << >>
  /\ RouteIdle /\ OdIdle /\ FxIdle /\ AstarIdle /\ ExtIdle

\* calculate_timestamps on one of the two routes
CcCalculateTimestamps ==
  /\ \/ /\ ship1.timestamps = None
        /\ ship1' = px_calculate_timestamps(ship1)
        /\ UNCHANGED ship2
     \/ /\ ship2.timestamps = None
        /\ ship2' = px_calculate_timestamps(ship2)
        /\ UNCHANGED ship1
  /\ cc_pc' = "idle"
  /\ collision_intervals' = << >>
  /\ UNCHANGED << route_vars, od_vars, fx_vars, astar_vars, ext_vars >>

CheckCollision ==
  /\ cc_pc = "idle"
  /\ collision_intervals' = check_collision(ship1, ship2)
  /\ cc_pc' = "done"
  /\ UNCHANGED << ship1, ship2, route_vars, od_vars, fx_vars, astar_vars, ext_vars >>

CcNext == CcCalculateTimestamps \/ CheckCollision

SpecCollision == CcInit /\ [][CcNext]_vars

\* the common time window of the two routes
CcStart == Max2(ship1.departure_time, ship2.departure_time)
CcEnd == Min2(Last(ship1.timestamps), Last(ship2.timestamps))

\* the two ships are closer than the safety distance at time t
TooCloseAt(t) ==
  LET pos1 == px_get_position_at_time(ship1, t)
      pos2 == px_get_position_at_time(ship2, t)
  IN pos1 # None /\ pos2 # None /\ IsCollision(pos1, pos2)

Bracketed(t) ==
  \E k \in 1..Len(collision_intervals) :
     collision_intervals[k][1] <= t /\ t <= collision_intervals[k][2]

CcTimed == ship1.timestamps # None /\ ship2.timestamps # None

\* C4 as claimed: whenever the two routes are closer than the safety radius at some
\* instant of their common time window, check_collision returns an interval that
\* brackets that instant.
C4_EveryInstantBracketed ==
  (cc_pc = "done" /\ CcTimed) =>
     \A t \in CcStart..CcEnd : TooCloseAt(t) => Bracketed(t)

\* C4 amended: in a common window with start < end, whenever the two routes are
\* closer than the safety radius at a sampled instant start + k * time_step <= end,
\* check_collision returns an interval that brackets that instant.
C4_SampledInstantBracketed ==
  (cc_pc = "done" /\ CcTimed /\ CcStart < CcEnd) =>
     \A t \in CcStart..CcEnd :
        ((t - CcStart) % TimeStep = 0 /\ TooCloseAt(t)) => Bracketed(t)

\* a check that found two separate intervals, the ships being too close at the
\* last sample of the window
C4_Witness ==
  /\ cc_pc = "done" /\ CcTimed /\ CcStart < CcEnd
  /\ Len(collision_intervals) >= 1
  /\ \E t \in CcStart..CcEnd :
       /\ (t - CcStart) % TimeStep = 0 /\ t + TimeStep > CcEnd
       /\ TooCloseAt(t)
  /\ \E t \in CcStart..CcEnd : (t - CcStart) % TimeStep = 0 /\ ~TooCloseAt(t)

\* the sampled instants of the common window
CcSamples == { t \in CcStart..CcEnd : (t - CcStart) % TimeStep = 0 }

\* the sampled instants at which a maximal run of unsafe samples begins
RunStarts ==
  { t \in CcSamples : TooCloseAt(t) /\ (t = CcStart \/ ~ TooCloseAt(t - TimeStep)) }

\* C20: the intervals check_collision returns are in increasing time order and
\* pairwise disjoint, each has start <= end and lies in the common time window,
\* and every maximal run of consecutive unsafe samples yields exactly one
\* interval: the intervals start at the run starts, cover the samples of the run
\* and end at the first safe sample after it, or at the end of the window.
C20_OneIntervalPerRun ==
  (cc_pc = "done" /\ CcTimed /\ CcStart < CcEnd) =>
     LET iv == collision_intervals
     IN /\ \A k \in 1..Len(iv) :
             /\ iv[k][1] <= iv[k][2]
             /\ CcStart <= iv[k][1] /\ iv[k][2] <= CcEnd
             /\ \A t \in CcSamples : (iv[k][1] <= t /\ t < iv[k][2]) => TooCloseAt(t)
             /\ \/ iv[k][2] \in CcSamples /\ ~ TooCloseAt(iv[k][2]) /\ iv[k][1] < iv[k][2]
                \/ k = Len(iv) /\ iv[k][2] = CcEnd
        /\ \A k \in 1..(Len(iv) - 1) : iv[k][2] < iv[k + 1][1]
        /\ { iv[k][1] : k \in 1..Len(iv) } = RunStarts
        /\ Len(iv) = Cardinality(RunStarts)

\* a check that returned two intervals, the second still open at the end of the window
C20_Witness ==
  /\ cc_pc = "done" /\ CcTimed /\ CcStart < CcEnd
  /\ Len(collision_intervals) >= 2
  /\ TooCloseAt(Last(collision_intervals)[1])
  /\ Last(collision_intervals)[2] = CcEnd


(***************************************************************************)
(* RouteOptimizer.optimize_departure_time (core_optimizer_latlng.py)       *)
(***************************************************************************)

\* float('inf')
Infinity == 999999

\* safety_distance_nm = 0.5, in 0.001 NM
SafetyDistance == 500

MinOffset == 3
MaxOffsetCap == 10
CheckEveryMinutes == 10

\* base_departure_dt and base_departure_minutes
BaseDepartureDt(ship, cur) ==
  IF ship.is_number THEN cur + ship.departure_time ELSE ship.departure_time

BaseDepartureMinutes(ship, cur) ==
  IF ship.is_number THEN ship.departure_time ELSE Max2(0, ship.departure_time - cur)

\* a search window without the ten-minute cap
MaxOffsetUncapped(window) == window

\* max_offset = min(10, time_window_minutes)
MaxOffset(window) == Min2(MaxOffsetCap, window)

\* check_times: the two ends of the transit, then every 10 minutes from its start
CheckTimes(test_start, test_end) ==
  LET duration == test_end - test_start
      n == (duration + CheckEveryMinutes - 1) \div CheckEveryMinutes
  IN << test_start, test_end >> \o [ k \in 1..n |-> test_start + CheckEveryMinutes * (k - 1) ]

RECURSIVE CheckAtTimes(_, _, _, _, _)
\* the loop over check_times against one existing ship: << conflicts, min_distance >>
CheckAtTimes(test_ship, existing_ship, times, conflicts, min_distance) ==
  IF times = << >> THEN << conflicts, min_distance >>
  ELSE LET test_pos == get_position_at_time(test_ship, Head(times))
           exist_pos == get_position_at_time(existing_ship, Head(times))
       IN IF test_pos # None /\ exist_pos # None
          THEN LET distance == haversine_distance(test_pos, exist_pos)
               IN CheckAtTimes(test_ship, existing_ship, Tail(times),
                               IF distance < SafetyDistance THEN conflicts + 1 ELSE conflicts,
                               Min2(min_distance, distance))
          ELSE CheckAtTimes(test_ship, existing_ship, Tail(times), conflicts, min_distance)

RECURSIVE CheckAgainstShips(_, _, _, _, _)
\* the loop over existing_ships from index i on: << conflicts, min_distance >>
CheckAgainstShips(test_ship, ships, i, conflicts, min_distance) ==
  IF i > Len(ships) THEN << conflicts, min_distance >>
  ELSE LET existing_ship == ships[i]
       IN IF existing_ship.timestamps = None
          THEN CheckAgainstShips(test_ship, ships, i + 1, conflicts, min_distance)
          ELSE LET test_start == test_ship.timestamps[1]
                   test_end == Last(test_ship.timestamps)
                   exist_start == existing_ship.timestamps[1]
                   exist_end == Last(existing_ship.timestamps)
               IN IF test_end < exist_start \/ test_start > exist_end
                  THEN CheckAgainstShips(test_ship, ships, i + 1, conflicts, min_distance)
                  ELSE LET c == CheckAtTimes(test_ship, existing_ship,
                                             CheckTimes(test_start, test_end),
                                             conflicts, min_distance)
                       IN CheckAgainstShips(test_ship, ships, i + 1, c[1], c[2])

\* the candidate route of one loop iteration
TestShip(ship, cur, offset) ==
  calculate_timestamps(
    ShipRoute(ship.path, BaseDepartureDt(ship, cur) + offset, FALSE, ship.speed_knots), cur)

\* << conflicts, min_distance >> of the candidate departing offset minutes late
EvaluateOffset(ship, ships, cur, offset) ==
  CheckAgainstShips(TestShip(ship, cur, offset), ships, 1, 0, Infinity)

\* a selection test that looks at the number of conflicts only
BetterIgnoresDistance(conflicts, min_distance, best_conflicts, best_so_far) ==
  conflicts < best_conflicts

\* the selection test of the loop
Better(conflicts, min_distance, best_conflicts, best_so_far) ==
  \/ conflicts < best_conflicts
  \/ (conflicts = best_conflicts /\ min_distance > best_so_far)


\* the requested route: 9 NM west to east at 18 knots, half an hour
NewShipPath == << << 0, 0 >>, << 0, 1500 >> >>
NewShipSpeed == 18
RequestedAt == 100

\* a committed route; timed = FALSE is a route whose timestamps were never computed
Committed(path, departure_time, timed) ==
  LET r == ShipRoute(path, departure_time, FALSE, NewShipSpeed)
  IN IF timed THEN calculate_timestamps(r, 0) ELSE r

\* north to south across the middle of the requested route
CrossingPath == << << 750, 750 >>, << -750, 750 >> >>

\* the same heading as the requested route, twice as far
AheadPath == << << 0, 0 >>, << 0, 3000 >> >>

ExistingShipSets ==
  { << >>,
    << Committed(CrossingPath, RequestedAt + 3, FALSE) >>,
    << Committed(AheadPath, RequestedAt + 2, TRUE) >>,
    << Committed(NewShipPath, RequestedAt - 60, TRUE) >>,
    << Committed(CrossingPath, RequestedAt + 8, TRUE),
       Committed(AheadPath, RequestedAt + 2, TRUE) >> }
  \cup { << Committed(CrossingPath, RequestedAt + d, TRUE) >> : d \in { 3, 6, 10 } }

\* << is_number, departure_time, current_time >>
DepartureRequests ==
  { << FALSE, RequestedAt, RequestedAt - 10 >>,
    << FALSE, RequestedAt, RequestedAt + 5 >>,
    << TRUE, 10, RequestedAt - 10 >> }

TimeWindows == { 0, 2, 5, 120 }

OdInit ==
  /\ \E req \in DepartureRequests :
       /\ new_ship = ShipRoute(NewShipPath, req[2], req[1], NewShipSpeed)
       /\ current_time = req[3]
  /\ existing_ships \in ExistingShipSets
  /\ time_window_minutes \in TimeWindows
  /\ od_pc = "call"
  /\ minutes_offset = 0 /\ best_time = 0 /\ min_conflicts = 0 /\ best_min_distance = 0
  /\ evaluated = << >>
  /\ optimal_time = None
  /\ RouteIdle /\ CcIdle /\ FxIdle /\ AstarIdle /\ ExtIdle

\* a trial object that is the caller's object itself, not a copy of it
CallerAfterShared(caller, trial) == trial

\* the caller's route object after a trial was timed or re-routed: test_ship is a
\* new ShipRoute (optimize_departure_time) or a deepcopy (optimize_fixed_time), so
\* what is assigned to it does not reach the caller's object
CallerAfter(caller, trial) == caller

\* the statements before the loop
OptimizeDepartureTime ==
  /\ od_pc = "call"
  /\ od_pc' = "loop"
  /\ best_time' = BaseDepartureMinutes(new_ship, current_time)
  /\ min_conflicts' = Infinity
  /\ best_min_distance' = 0
  /\ minutes_offset' = MinOffset
  /\ UNCHANGED << new_ship, existing_ships, time_window_minutes, current_time, evaluated,
                  optimal_time, route_vars, cc_vars, fx_vars, astar_vars, ext_vars >>

\* one iteration of the loop over minutes_offset
TryOffset ==
  /\ od_pc = "loop"
  /\ minutes_offset <= MaxOffset(time_window_minutes)
  /\ LET e == EvaluateOffset(new_ship, existing_ships, current_time, minutes_offset)
         better == Better(e[1], e[2], min_conflicts, best_min_distance)
     IN /\ min_conflicts' = IF better THEN e[1] ELSE min_conflicts
        /\ best_time' = IF better
                        THEN BaseDepartureMinutes(new_ship, current_time) + minutes_offset
                        ELSE best_time
        /\ best_min_distance' = IF better THEN e[2] ELSE best_min_distance
        /\ evaluated' = Append(evaluated, << minutes_offset, e[1], e[2] >>)
  /\ new_ship' = CallerAfter(new_ship, TestShip(new_ship, current_time, minutes_offset))
  /\ minutes_offset' = minutes_offset + 1
  /\ UNCHANGED << existing_ships, time_window_minutes, current_time, od_pc,
                  optimal_time, route_vars, cc_vars, fx_vars, astar_vars, ext_vars >>

\* return float(best_time)
ReturnBestTime ==
  /\ od_pc = "loop"
  /\ minutes_offset > MaxOffset(time_window_minutes)
  /\ od_pc' = "done"
  /\ optimal_time' = << best_time >>
  /\ UNCHANGED << new_ship, existing_ships, time_window_minutes, current_time,
                  minutes_offset, best_time, min_conflicts, best_min_distance, evaluated,
                  route_vars, cc_vars, fx_vars, astar_vars, ext_vars >>

OdNext == OptimizeDepartureTime \/ TryOffset \/ ReturnBestTime

SpecDeparture == OdInit /\ [][OdNext]_vars

\* the departure asked for and the departure returned, on the clock
RequestedDeparture == BaseDepartureDt(new_ship, current_time)
ReturnedDeparture == current_time + optimal_time[1]
AppliedOffset == ReturnedDeparture - RequestedDeparture

\* C5 (as stated): for every request and every time_window_minutes, the returned
\* departure is later than the requested one by between 3 and 10 minutes inclusive.
C5_OffsetAlwaysInWindow ==
  od_pc = "done" => AppliedOffset \in MinOffset..MaxOffsetCap

\* C5: when time_window_minutes is at least 3 and the requested departure is given in
\* minutes from now or is not earlier than the current time, the returned departure is
\* later than the requested one by between 3 and 10 minutes inclusive.
C5_OffsetInWindow ==
  (/\ od_pc = "done"
   /\ time_window_minutes >= MinOffset
   /\ (new_ship.is_number \/ new_ship.departure_time >= current_time))
  => AppliedOffset \in MinOffset..MaxOffsetCap

C5_Witness ==
  /\ od_pc = "done"
  /\ time_window_minutes > MaxOffsetCap
  /\ ~ new_ship.is_number /\ new_ship.departure_time >= current_time
  /\ AppliedOffset = MaxOffsetCap

SelectedOffset == optimal_time[1] - BaseDepartureMinutes(new_ship, current_time)

\* candidate a is strictly preferred to candidate b: fewer conflicts, then larger minimum distance
Preferred(a, b) == a[2] < b[2] \/ (a[2] = b[2] /\ a[3] > b[3])

\* C6: among the offsets evaluated, the returned one has the fewest detected conflicts,
\* among those the largest minimum observed distance, and among those it is the earliest.
C6_LexicographicSelection ==
  (od_pc = "done" /\ evaluated # << >>)
  => \E i \in 1..Len(evaluated) :
       /\ evaluated[i][1] = SelectedOffset
       /\ \A j \in 1..Len(evaluated) : ~ Preferred(evaluated[j], evaluated[i])
       /\ \A j \in 1..(i - 1) : Preferred(evaluated[i], evaluated[j])

C6_Witness ==
  /\ od_pc = "done"
  /\ \E i, j, k \in 1..Len(evaluated) :
       /\ evaluated[i][1] = SelectedOffset
       /\ evaluated[j][2] > evaluated[i][2]
       /\ evaluated[k][2] = evaluated[i][2] /\ evaluated[k][3] < evaluated[i][3]

\* the candidate departing offset minutes late keeps the safety distance from every
\* committed route at every minute at which both are under way
SafeThroughout(offset) ==
  LET test_ship == TestShip(new_ship, current_time, offset)
  IN \A i \in 1..Len(existing_ships) :
       existing_ships[i].timestamps # None =>
         \A t \in Max2(test_ship.timestamps[1], existing_ships[i].timestamps[1])
                  ..Min2(Last(test_ship.timestamps), Last(existing_ships[i].timestamps)) :
           haversine_distance(get_position_at_time(test_ship, t),
                              get_position_at_time(existing_ships[i], t)) >= SafetyDistance

\* C7: if some offset of the search window keeps the new vessel at least 0.5 NM from
\* every committed route at every instant of its transit, the offset selected does too.
C7_SelectedOffsetSafe ==
  (/\ od_pc = "done"
   /\ \E i \in 1..Len(evaluated) : SafeThroughout(evaluated[i][1]))
  => SafeThroughout(SelectedOffset)


(***************************************************************************)
(* PathAdjuster (core_optimizer.py)                                        *)
(***************************************************************************)

\* the constructor's arguments; positions are pixels, cells are << gx, gy >>
grid_width == 12
grid_height == 8
grid_size == 50
obstacles_polygons == { [ lo |-> << 250, 140 >>, hi |-> << 300, 160 >> ] }

Cells == (0..(grid_width - 1)) \X (0..(grid_height - 1))

\* self.grid after _mark_obstacles, as the set of cells holding 1
MarkObstacles ==
  { c \in Cells :
      \E poly \in obstacles_polygons :
        LET min_gx == Max2(0, (poly.lo[1] \div grid_size) - 1)
            min_gy == Max2(0, (poly.lo[2] \div grid_size) - 1)
            max_gx == Min2(grid_width - 1, (poly.hi[1] \div grid_size) + 1)
            max_gy == Min2(grid_height - 1, (poly.hi[2] \div grid_size) + 1)
            pt == << c[1] * grid_size, c[2] * grid_size >>
        IN /\ min_gx <= c[1] /\ c[1] <= max_gx
           /\ min_gy <= c[2] /\ c[2] <= max_gy
           /\ (RectContains(poly, pt)
               \/ 100 * RectDist2(poly, pt) < 49 * grid_size * grid_size) }

grid == MarkObstacles

ToGrid(pos) == << pos[1] \div grid_size, pos[2] \div grid_size >>

\* np.sqrt(dx**2 + dy**2) in thousandths of a cell
Heuristic(a, b) == Isqrt(1000000 * Dist2(a, b))

\* 1 or np.sqrt(2), in thousandths of a cell
MoveCost(a, b) == IF Abs(a[1] - b[1]) = 1 /\ Abs(a[2] - b[2]) = 1 THEN 1414 ELSE 1000

\* neighbours filtered by the static grid alone
GetNeighborsStaticOnly(pos, temp_obstacles) ==
  { n \in { << pos[1] + d[1], pos[2] + d[2] >> : d \in (-1..1) \X (-1..1) } :
      /\ n # pos
      /\ 0 <= n[1] /\ n[1] < grid_width /\ 0 <= n[2] /\ n[2] < grid_height
      /\ n \notin grid }

GetNeighbors(pos, temp_obstacles) ==
  { n \in { << pos[1] + d[1], pos[2] + d[2] >> : d \in (-1..1) \X (-1..1) } :
      /\ n # pos
      /\ 0 <= n[1] /\ n[1] < grid_width /\ 0 <= n[2] /\ n[2] < grid_height
      /\ n \notin grid
      /\ n \notin temp_obstacles }

\* _is_path_clear: the line meets no static polygon
IsPathClear(a, b) == \A poly \in obstacles_polygons : ~ RectIntersectsLine(poly, a, b)

RECURSIVE SmoothFrom(_, _, _)
\* the while loop of _smooth_path, i counted from 1
SmoothFrom(path, i, smoothed) ==
  IF i >= Len(path) THEN smoothed
  ELSE LET clear == { j \in (i + 1)..Len(path) : IsPathClear(path[i], path[j]) }
       IN IF clear # {}
          THEN LET j == CHOOSE k \in clear : \A m \in clear : m <= k
               IN SmoothFrom(path, j, Append(smoothed, path[j]))
          ELSE SmoothFrom(path, i + 1, Append(smoothed, path[i + 1]))

SmoothPath(path) == IF Len(path) <= 2 THEN path ELSE SmoothFrom(path, 1, << path[1] >>)

\* came_from and g_score are kept together as a set of entries << cell, g, parent >>,
\* one for each cell in g_score; the start cell's parent is None
Entry(known, c) == CHOOSE k \in known : k[1] = c

InGScore(known, c) == \E k \in known : k[1] = c

RECURSIVE ReconstructPath(_, _, _)
\* the walk back along came_from; acc is the path from current's successor to the goal cell
ReconstructPath(current, known, acc) ==
  LET parent == Entry(known, current)[3]
  IN IF parent # None
     THEN ReconstructPath(parent, known,
                          << << current[1] * grid_size, current[2] * grid_size >> >> \o acc)
     ELSE acc

\* heapq.heappop: the least (f_score, cell) entry, f_score first, then the cell
HeapTop(open_entries) ==
  LET f_min == CHOOSE f \in { e[1] : e \in open_entries } : \A e \in open_entries : f <= e[1]
      x_min == CHOOSE x \in { e[2][1] : e \in { o \in open_entries : o[1] = f_min } } :
                 \A e \in open_entries : e[1] = f_min => x <= e[2][1]
      y_min == CHOOSE y \in { e[2][2] : e \in { o \in open_entries : o[1] = f_min /\ o[2][1] = x_min } } :
                 \A e \in open_entries : (e[1] = f_min /\ e[2][1] = x_min) => y <= e[2][2]
  IN << f_min, << x_min, y_min >> >>

\* the for loop over the neighbours of current: the entries it writes
Relax(current, g_current, goal_grid, temp_obstacles, known, visited) ==
  { << n, g_current + MoveCost(current, n), current >> :
      n \in { m \in GetNeighbors(current, temp_obstacles) \ visited :
                \/ ~ InGScore(known, m)
                \/ g_current + MoveCost(current, m) < Entry(known, m)[2] } }

RECURSIVE AstarLoop(_, _, _, _, _, _, _)
\* the while loop of _astar_with_temp_obstacles
AstarLoop(start, goal, goal_grid, temp_obstacles, open_entries, known, visited) ==
  IF open_entries = {} THEN None
  ELSE LET top == HeapTop(open_entries)
       IN IF top[2] \in visited
          THEN AstarLoop(start, goal, goal_grid, temp_obstacles, open_entries \ { top }, known, visited)
          ELSE IF top[2] = goal_grid
          THEN LET path == << start >> \o ReconstructPath(top[2], known, << >>)
               IN SmoothPath([ path EXCEPT ![Len(path)] = goal ])
          ELSE LET written == Relax(top[2], Entry(known, top[2])[2], goal_grid, temp_obstacles,
                                    known, visited)
               IN AstarLoop(start, goal, goal_grid, temp_obstacles,
                            \* the other entries of the cell just visited would be popped
                            \* and skipped: they are dropped here
                            { e \in open_entries : e[2] # top[2] }
                              \cup { << w[2] + Heuristic(w[1], goal_grid), w[1] >> : w \in written },
                            { k \in known : \A w \in written : w[1] # k[1] } \cup written,
                            visited \cup { top[2] })

astar_with_temp_obstacles(start, goal, temp_obstacles) ==
  LET start_grid == ToGrid(start)
      goal_grid == ToGrid(goal)
  IN IF start_grid \notin Cells \/ goal_grid \notin Cells THEN << start, goal >>
     ELSE IF start_grid \in grid \/ goal_grid \in grid THEN None
     ELSE AstarLoop(start, goal, goal_grid, temp_obstacles, { << 0, start_grid >> },
                    { << start_grid, 0, None >> }, {})

\* avoidance_radius_nm = 0.5 * avoidance_factor / 10, as int(avoidance_radius_pixels / grid_size)
RadiusCells(avoidance_factor) ==
  (avoidance_factor * SafetyDistancePixels10) \div (100 * grid_size)

TempObstacles(existing, check_time, radius_cells) ==
  { c \in Cells :
      \E s \in 1..Len(existing) :
        LET pos == px_get_position_at_time(existing[s], check_time)
        IN /\ pos # None
           /\ Dist2(c, ToGrid(pos)) <= radius_cells * radius_cells
           /\ Abs(c[1] - ToGrid(pos)[1]) <= radius_cells
           /\ Abs(c[2] - ToGrid(pos)[2]) <= radius_cells }

find_alternative_path(start, goal, existing, check_time, avoidance_factor) ==
  astar_with_temp_obstacles(start, goal,
                            TempObstacles(existing, check_time, RadiusCells(avoidance_factor)))

find_initial_path(start, goal) == astar_with_temp_obstacles(start, goal, {})

(***************************************************************************)
(* RouteOptimizer.optimize_fixed_time (core_optimizer.py)                  *)
(***************************************************************************)

RECURSIVE calculate_path_length(_)
\* the sum of the segment lengths, in tenths of a pixel
calculate_path_length(path) ==
  IF Len(path) < 2 THEN 0
  ELSE Isqrt(100 * Dist2(path[1], path[2])) + calculate_path_length(Tail(path))

\* avoidance_factor in tenths
AvoidanceFactors == << 6, 8, 10, 12, 15 >>

RECURSIVE CollisionInfo(_, _, _)
\* the intervals collected by the first loop over existing_ships, from index i on
CollisionInfo(test_ship, existing, i) ==
  IF i > Len(existing) THEN << >>
  ELSE check_collision(test_ship, existing[i]) \o CollisionInfo(test_ship, existing, i + 1)

\* still_collides of a candidate path
StillCollides(ship, path, existing) ==
  LET test_ship == px_calculate_timestamps([ ship EXCEPT !.path = path ])
  IN \E i \in 1..Len(existing) : check_collision(test_ship, existing[i]) # << >>

\* the decision on has_collision that never takes the early return
HasCollisionAlways(info) == TRUE

HasCollision(info) == info # << >>

\* check_times: the middle of every collision interval, then the quarters of the journey
CheckTimesOf(ship, test_ship, info) ==
  LET journey_duration == Last(test_ship.timestamps) - test_ship.departure_time
  IN [ k \in 1..Len(info) |-> (info[k][1] + info[k][2]) \div 2 ]
     \o << ship.departure_time + journey_duration \div 4,
           ship.departure_time + journey_duration \div 2,
           ship.departure_time + (3 * journey_duration) \div 4 >>

\* solutions.sort(key = detour) picks the last of the largest detours
LastSolution(sols) ==
  LET k == CHOOSE i \in 1..Len(sols) :
             \A j \in 1..Len(sols) : sols[j][1] < sols[i][1] \/ (sols[j][1] = sols[i][1] /\ j <= i)
  IN sols[k][2]

\* solutions.sort(key = detour); solutions[0]: the first of the smallest detours
FirstSolution(sols) ==
  LET k == CHOOSE i \in 1..Len(sols) :
             \A j \in 1..Len(sols) : sols[i][1] < sols[j][1] \/ (sols[i][1] = sols[j][1] /\ i <= j)
  IN sols[k][2]

FxStart == << 0, 150 >>
FxGoal == << 550, 150 >>
FxSpeed == 12

\* the path of the new ship: the initial path around the static obstacle, or a dog-leg
FxPaths == { find_initial_path(FxStart, FxGoal), << FxStart, << 250, 50 >>, FxGoal >> }

FxPoints == { << 0, 150 >>, << 250, 0 >>, << 250, 350 >>, << 500, 0 >> }

\* the committed routes: none, one never timed, or one timed route between two points
FxExistingSets ==
  { << >>, << PxShipRoute(<< 250, 0 >>, << 250, 350 >>, << << 250, 0 >>, << 250, 350 >> >>, 0, FxSpeed) >> }
  \cup { << px_calculate_timestamps(PxShipRoute(ab[1], ab[2], ab, d, FxSpeed)) >> :
           ab \in { p \in FxPoints \X FxPoints : p[1] # p[2] }, d \in { 0, 16 } }

FxInit ==
  /\ \E path \in FxPaths : fx_new_ship = PxShipRoute(FxStart, FxGoal, path, 0, FxSpeed)
  /\ fx_existing_ships \in FxExistingSets
  /\ fx_pc = "call"
  /\ has_collision = FALSE /\ collision_info = << >> /\ check_times = << >>
  /\ fx_index = << 1, 1 >> /\ generated = << >> /\ solutions = << >> /\ best_path = None
  /\ RouteIdle /\ CcIdle /\ OdIdle /\ AstarIdle /\ ExtIdle

\* the check of the original path, and the early return
CheckOriginalPath ==
  /\ fx_pc = "call"
  /\ LET test_ship == px_calculate_timestamps(fx_new_ship)
         info == CollisionInfo(test_ship, fx_existing_ships, 1)
     IN /\ collision_info' = info
        /\ has_collision' = HasCollision(info)
        /\ fx_new_ship' = CallerAfter(fx_new_ship, test_ship)
        /\ IF ~ HasCollision(info)
           THEN /\ best_path' = << fx_new_ship.path >>
                /\ fx_pc' = "done"
                /\ UNCHANGED check_times
           ELSE /\ check_times' = CheckTimesOf(fx_new_ship, test_ship, info)
                /\ fx_pc' = "search"
                /\ UNCHANGED best_path
  /\ UNCHANGED << fx_existing_ships, fx_index, generated, solutions,
                  route_vars, cc_vars, od_vars, astar_vars, ext_vars >>

\* one iteration of the loops over check_times and avoidance factors
TryAlternativePath ==
  /\ fx_pc = "search"
  /\ fx_index[1] <= Len(check_times)
  /\ LET alt_path == find_alternative_path(fx_new_ship.start, fx_new_ship.goal,
                                           fx_existing_ships, check_times[fx_index[1]],
                                           AvoidanceFactors[fx_index[2]])
     IN /\ generated' = IF alt_path # None THEN Append(generated, alt_path) ELSE generated
        /\ fx_new_ship' =
             IF alt_path # None /\ alt_path # fx_new_ship.path
             THEN CallerAfter(fx_new_ship,
                              px_calculate_timestamps([ fx_new_ship EXCEPT !.path = alt_path ]))
             ELSE fx_new_ship
        /\ solutions' =
             IF /\ alt_path # None
                /\ alt_path # fx_new_ship.path
                /\ ~ StillCollides(fx_new_ship, alt_path, fx_existing_ships)
             THEN Append(solutions,
                         << calculate_path_length(alt_path)
                              - calculate_path_length(fx_new_ship.path), alt_path >>)
             ELSE solutions
  /\ fx_index' = IF fx_index[2] < Len(AvoidanceFactors)
                 THEN << fx_index[1], fx_index[2] + 1 >>
                 ELSE << fx_index[1] + 1, 1 >>
  /\ UNCHANGED << fx_existing_ships, fx_pc, has_collision, collision_info,
                  check_times, best_path, route_vars, cc_vars, od_vars, astar_vars, ext_vars >>

\* the choice among the solutions, and the return
ReturnBestPath ==
  /\ fx_pc = "search"
  /\ fx_index[1] > Len(check_times)
  /\ best_path' = IF solutions # << >> THEN << FirstSolution(solutions) >>
                  ELSE << fx_new_ship.path >>
  /\ fx_pc' = "done"
  /\ UNCHANGED << fx_new_ship, fx_existing_ships, has_collision, collision_info,
                  check_times, fx_index, generated, solutions, route_vars, cc_vars, od_vars, astar_vars, ext_vars >>

FxNext == CheckOriginalPath \/ TryAlternativePath \/ ReturnBestPath

SpecFixed == FxInit /\ [][FxNext]_vars

\* the new ship on the given path meets no collision interval with any committed route
CollisionFree(path) == ~ StillCollides(fx_new_ship, path, fx_existing_ships)

\* C8: if check_collision reports no interval between the new route and any committed
\* route, optimize_fixed_time returns the original waypoint list, element for element.
C8_NoCollisionReturnsOriginal ==
  (fx_pc = "done" /\ CollisionFree(fx_new_ship.path)) => best_path = << fx_new_ship.path >>

C8_Witness ==
  /\ fx_pc = "done"
  /\ CollisionFree(fx_new_ship.path)
  /\ fx_existing_ships # << >>
  /\ fx_existing_ships[1].timestamps # None
  /\ fx_existing_ships[1].departure_time
       < Last(px_calculate_timestamps(fx_new_ship).timestamps)
  /\ best_path = << fx_new_ship.path >>

FreeAlternatives == { k \in 1..Len(generated) : CollisionFree(generated[k]) }

\* C9: when the original path collides and no alternative generated is collision-free,
\* the value returned differs from the one returned when the original path has no
\* collision, which is the original path.
C9_UnresolvedDistinguishable ==
  (fx_pc = "done" /\ ~ CollisionFree(fx_new_ship.path) /\ FreeAlternatives = {})
  => best_path # << fx_new_ship.path >>

\* C10: when the original path collides and at least one alternative generated is
\* collision-free, the path returned is a collision-free alternative, and no
\* collision-free alternative generated is shorter.
C10_ShortestCollisionFree ==
  (fx_pc = "done" /\ ~ CollisionFree(fx_new_ship.path) /\ FreeAlternatives # {})
  => \E k \in FreeAlternatives :
       /\ best_path = << generated[k] >>
       /\ \A j \in FreeAlternatives :
            calculate_path_length(generated[k]) <= calculate_path_length(generated[j])

C10_Witness ==
  /\ fx_pc = "done"
  /\ ~ CollisionFree(fx_new_ship.path)
  /\ \E j, k \in FreeAlternatives :
       /\ j < k
       /\ calculate_path_length(generated[k]) < calculate_path_length(generated[j])
       /\ best_path = << generated[k] >>

(***************************************************************************)
(* ObstaclePolygon, CollisionChecker and RouteOptimizer.find_path_astar    *)
(* (core_optimizer_latlng.py). Positions are << lat, lng >> in 0.0001      *)
(* degree; an obstacle is a rectangle, its buffered polygon the rectangle  *)
(* grown by margin_degrees all round.                                      *)
(***************************************************************************)

GRID_RESOLUTION == 2

\* margin_degrees squared, 3.685 * 3.685, as MarginNum / MarginDen
MarginNum == 1358
MarginDen == 100

OneNM == 1000
FiveNM == 5000

\* the 0.05 degree allowed around start and goal
BoundaryMargin == 500

\* max_iterations, 10000 in the source
MaxIterations == 90

\* a buffer that shrinks the polygon instead of growing it
contains_point_eroded(R, p) ==
  RectContains([ lo |-> << R.lo[1] + 2, R.lo[2] + 2 >>,
                 hi |-> << R.hi[1] - 2, R.hi[2] - 2 >> ], p)

\* ObstaclePolygon.contains_point: the point is inside the buffered polygon
contains_point(R, p) == MarginDen * RectDist2(R, p) < MarginNum

\* ObstaclePolygon.intersects_line: the segment meets the buffered polygon
intersects_line(R, p, q) == RectNearLine(R, p, q, MarginNum, MarginDen)

\* CollisionChecker.is_position_safe without check_time
is_position_safe(obs, p) == \A R \in obs : ~ contains_point(R, p)

\* CollisionChecker.is_path_safe without start_time
is_path_safe(obs, p, q) == \A R \in obs : ~ intersects_line(R, p, q)

\* a Node; path is the chain of parents from the start node to this node
Node(pos, g, h, path) == [ pos |-> pos, g |-> g, h |-> h, f |-> g + h, path |-> path ]

(* heapq on a sequence, position 1 the root *)

RECURSIVE SiftDown(_, _, _, _)
SiftDown(heap, startpos, pos, newitem) ==
  IF pos > startpos /\ newitem.f < heap[pos \div 2].f
  THEN SiftDown([ heap EXCEPT ![pos] = heap[pos \div 2] ], startpos, pos \div 2, newitem)
  ELSE [ heap EXCEPT ![pos] = newitem ]

RECURSIVE SiftUpWalk(_, _)
\* the smaller child moves up until a leaf is reached: << heap, the leaf's position >>
SiftUpWalk(heap, pos) ==
  IF 2 * pos <= Len(heap)
  THEN LET childpos == 2 * pos
           rightpos == childpos + 1
           c == IF rightpos <= Len(heap) /\ ~ (heap[childpos].f < heap[rightpos].f)
                THEN rightpos ELSE childpos
       IN SiftUpWalk([ heap EXCEPT ![pos] = heap[c] ], c)
  ELSE << heap, pos >>

SiftUp(heap, pos) ==
  LET w == SiftUpWalk(heap, pos)
  IN SiftDown(w[1], pos, w[2], heap[pos])

heappush(heap, item) == SiftDown(Append(heap, item), 1, Len(heap) + 1, item)

\* << the item popped, the heap left >>
heappop(heap) ==
  LET lastelt == heap[Len(heap)]
      rest == SubSeq(heap, 1, Len(heap) - 1)
  IN IF rest = << >> THEN << lastelt, rest >>
     ELSE << rest[1], SiftUp([ rest EXCEPT ![1] = lastelt ], 1) >>

RECURSIVE HeapifyFrom(_, _)
HeapifyFrom(heap, i) ==
  IF i < 1 THEN heap
  ELSE LET sifted == SiftUp(heap, i)
       IN IF Len(sifted) = Len(heap) THEN HeapifyFrom(sifted, i - 1) ELSE heap

heapify(heap) == HeapifyFrom(heap, Len(heap) \div 2)

\* the eight directions, in the order of the source
Directions(step) ==
  << << step, 0 >>, << step, step >>, << 0, step >>, << -step, step >>,
     << -step, 0 >>, << -step, -step >>, << 0, -step >>, << step, -step >> >>

StepFor(distance_to_goal) ==
  IF distance_to_goal > FiveNM THEN GRID_RESOLUTION * 5
  ELSE IF distance_to_goal > OneNM THEN GRID_RESOLUTION * 2
  ELSE GRID_RESOLUTION

InBounds(start, goal, p) ==
  /\ p[1] >= Min2(start[1], goal[1]) - BoundaryMargin
  /\ p[1] <= Max2(start[1], goal[1]) + BoundaryMargin
  /\ p[2] >= Min2(start[2], goal[2]) - BoundaryMargin
  /\ p[2] <= Max2(start[2], goal[2]) + BoundaryMargin

\* get_neighbors: the neighbour nodes, in the order of the directions
get_neighbors(obs, start, node, goal) ==
  LET dirs == Directions(StepFor(haversine_distance(node.pos, goal)))
      At(k) == << node.pos[1] + dirs[k][1], node.pos[2] + dirs[k][2] >>
      Valid(k) == InBounds(start, goal, At(k)) /\ is_position_safe(obs, At(k))
      Make(k) == Node(At(k), node.g + haversine_distance(node.pos, At(k)),
                      haversine_distance(At(k), goal), Append(node.path, At(k)))
      all == [ k \in 1..Len(dirs) |-> IF Valid(k) THEN << Make(k) >> ELSE << >> ]
  IN all[1] \o all[2] \o all[3] \o all[4] \o all[5] \o all[6] \o all[7] \o all[8]

RECURSIVE PushNeighbors(_, _, _, _)
\* the for loop over the neighbours, from the k-th on: the heap it leaves
PushNeighbors(heap, closed, neighbors, k) ==
  IF k > Len(neighbors) THEN heap
  ELSE LET neighbor == neighbors[k]
           same == { i \in 1..Len(heap) : heap[i].pos = neighbor.pos }
       IN IF neighbor.pos \in closed
          THEN PushNeighbors(heap, closed, neighbors, k + 1)
          ELSE IF same # {}
          THEN LET i == CHOOSE m \in same : \A n \in same : m <= n
               IN IF heap[i].g > neighbor.g
                  THEN PushNeighbors(heapify([ heap EXCEPT ![i] = neighbor ]), closed,
                                     neighbors, k + 1)
                  ELSE PushNeighbors(heap, closed, neighbors, k + 1)
          ELSE PushNeighbors(heappush(heap, neighbor), closed, neighbors, k + 1)

\* the for loop over j without any skipping: always the next point
NextPointOnly(obs, path, i, j, best_j) == i + 1

RECURSIVE FurthestReachable(_, _, _, _, _)
\* the for loop over j of simplify_path: best_j
FurthestReachable(obs, path, i, j, best_j) ==
  IF j > Len(path) THEN best_j
  ELSE IF is_path_safe(obs, path[i], path[j])
       THEN FurthestReachable(obs, path, i, j + 1, j)
       ELSE best_j

RECURSIVE SimplifyFrom(_, _, _, _)
SimplifyFrom(obs, path, i, simplified) ==
  IF i >= Len(path)
  THEN IF Last(simplified) # Last(path) THEN Append(simplified, Last(path)) ELSE simplified
  ELSE LET best_j == FurthestReachable(obs, path, i, i + 2, i + 1)
       IN SimplifyFrom(obs, path, best_j, Append(simplified, path[best_j]))

simplify_path(obs, path) ==
  IF Len(path) <= 2 THEN path ELSE SimplifyFrom(obs, path, 1, << path[1] >>)

\* perpendicular_offsets of a blocked waypoint, and the offsets of a blocked segment
PerpendicularOffsets ==
  << << 5, 0 >>, << 0, 5 >>, << -5, 0 >>, << 0, -5 >>,
     << 10, 0 >>, << 0, 10 >>, << -10, 0 >>, << 0, -10 >>,
     << 10, 10 >>, << 10, -10 >>, << -10, 10 >>, << -10, -10 >>,
     << 20, 0 >>, << 0, 20 >>, << -20, 0 >>, << 0, -20 >> >>

SegmentOffsets == << << 10, 0 >>, << 0, 10 >>, << -10, 0 >>, << 0, -10 >> >>

\* the first offset point that is safe and safely reached from last_point, or None
FirstSafeOffset(obs, last_point, waypoint, offsets) ==
  LET At(k) == << waypoint[1] + offsets[k][1], waypoint[2] + offsets[k][2] >>
      ok == { k \in 1..Len(offsets) :
                is_position_safe(obs, At(k)) /\ is_path_safe(obs, last_point, At(k)) }
  IN IF ok = {} THEN None ELSE At(CHOOSE k \in ok : \A m \in ok : k <= m)

RECURSIVE DirectWaypoints(_, _, _, _, _, _)
\* the loop over the intermediate waypoints of find_direct_path_with_avoidance
DirectWaypoints(obs, start, goal, num_waypoints, i, waypoints) ==
  IF i >= num_waypoints THEN waypoints
  ELSE LET waypoint == << start[1] + ((goal[1] - start[1]) * i) \div num_waypoints,
                          start[2] + ((goal[2] - start[2]) * i) \div num_waypoints >>
           last_point == Last(waypoints)
           alt == IF ~ is_position_safe(obs, waypoint)
                  THEN FirstSafeOffset(obs, last_point, waypoint, PerpendicularOffsets)
                  ELSE IF is_path_safe(obs, last_point, waypoint) THEN waypoint
                  ELSE FirstSafeOffset(obs, last_point, waypoint, SegmentOffsets)
       IN DirectWaypoints(obs, start, goal, num_waypoints, i + 1,
                          IF alt = None THEN waypoints ELSE Append(waypoints, alt))

\* the waypoints of the fallback before they are simplified, the goal appended
DirectChain(obs, start, goal) ==
  LET distance == haversine_distance(start, goal)
      num_waypoints == Min2(10, Max2(3, (distance * 2) \div OneNM))
  IN Append(DirectWaypoints(obs, start, goal, num_waypoints, 1, << start >>), goal)

find_direct_path_with_avoidance(obs, start, goal) ==
  IF is_path_safe(obs, start, goal) THEN << start, goal >>
  ELSE simplify_path(obs, DirectChain(obs, start, goal))

\* goal_tolerance = GRID_RESOLUTION * 2
WithinTolerance(p, goal) ==
  Abs(p[1] - goal[1]) < GRID_RESOLUTION * 2 /\ Abs(p[2] - goal[2]) < GRID_RESOLUTION * 2

AstarStart == << 0, 0 >>

AstarGoals == { << 14, 24 >>, << 0, 30 >>, << 0, 70 >>, << 0, 400 >> }

\* four walls closed around the start
Ring ==
  { [ lo |-> << 8, -10 >>, hi |-> << 10, 10 >> ], [ lo |-> << -10, -10 >>, hi |-> << -8, 10 >> ],
    [ lo |-> << -10, 8 >>, hi |-> << 10, 10 >> ], [ lo |-> << -10, -10 >>, hi |-> << 10, -8 >> ] }

\* a breakwater longer than the area the search may explore
LongWall == { [ lo |-> << -600, 40 >>, hi |-> << 600, 44 >> ] }

\* a block beside the straight line
Block == { [ lo |-> << -6, 13 >>, hi |-> << 5, 15 >> ] }

AstarObstacleSets == { {}, Block, Ring, LongWall }

AstarInit ==
  /\ obstacles \in AstarObstacleSets
  /\ start_pos = AstarStart
  /\ goal_pos \in AstarGoals
  /\ is_position_safe(obstacles, start_pos)
  /\ is_position_safe(obstacles, goal_pos)
  /\ astar_pc = "call"
  /\ open_set = << >> /\ closed_set = {} /\ iteration = 0 /\ best_node = None
  /\ best_distance = 0 /\ astar_path = None /\ astar_branch = "none"
  /\ simplify_input = None
  /\ RouteIdle /\ CcIdle /\ OdIdle /\ FxIdle /\ ExtIdle

\* the condition of the while loop, without the cap on the iterations
LoopContinuesUncapped(heap, n) == heap # << >>

\* the condition of the while loop
LoopContinues(heap, n) == heap # << >> /\ n < MaxIterations

\* the statements before the while loop
FindPathAstar ==
  /\ astar_pc = "call"
  /\ LET start_node == Node(start_pos, 0, haversine_distance(start_pos, goal_pos),
                            << start_pos >>)
     IN /\ open_set' = heappush(<< >>, start_node)
        /\ best_node' = start_node
  /\ closed_set' = {}
  /\ iteration' = 0
  /\ best_distance' = haversine_distance(start_pos, goal_pos)
  /\ astar_pc' = "loop"
  /\ UNCHANGED << obstacles, start_pos, goal_pos, astar_path, astar_branch, simplify_input,
                  route_vars, cc_vars, od_vars, fx_vars, ext_vars >>

\* one iteration of the while loop
AstarIteration ==
  /\ astar_pc = "loop"
  /\ LoopContinues(open_set, iteration)
  /\ iteration' = iteration + 1
  /\ LET popped == heappop(open_set)
         current == popped[1]
         current_distance == haversine_distance(current.pos, goal_pos)
     IN /\ IF current_distance < best_distance
           THEN best_node' = current /\ best_distance' = current_distance
           ELSE UNCHANGED << best_node, best_distance >>
        /\ IF WithinTolerance(current.pos, goal_pos)
           THEN /\ astar_path' = << simplify_path(obstacles, current.path) >>
                /\ simplify_input' = << current.path >>
                /\ astar_branch' = "found"
                /\ astar_pc' = "done"
                /\ open_set' = popped[2]
                /\ UNCHANGED closed_set
           ELSE /\ closed_set' = closed_set \cup { current.pos }
                /\ open_set' = PushNeighbors(popped[2], closed_set \cup { current.pos },
                                             get_neighbors(obstacles, start_pos, current, goal_pos), 1)
                /\ UNCHANGED << astar_path, astar_branch, astar_pc, simplify_input >>
  /\ UNCHANGED << obstacles, start_pos, goal_pos, route_vars, cc_vars, od_vars, fx_vars, ext_vars >>

\* the loop has ended within 1 NM of the goal: the best partial path, with the goal appended
ReturnPartialPath ==
  /\ astar_pc = "loop"
  /\ ~ LoopContinues(open_set, iteration)
  /\ best_distance < OneNM
  /\ astar_path' = << simplify_path(obstacles, Append(best_node.path, goal_pos)) >>
  /\ simplify_input' = << Append(best_node.path, goal_pos) >>
  /\ astar_branch' = "partial"
  /\ astar_pc' = "done"
  /\ UNCHANGED << obstacles, start_pos, goal_pos, open_set, closed_set, iteration,
                  best_node, best_distance, route_vars, cc_vars, od_vars, fx_vars, ext_vars >>

\* the loop has ended farther away: the direct path with obstacle avoidance
ReturnDirectPath ==
  /\ astar_pc = "loop"
  /\ ~ LoopContinues(open_set, iteration)
  /\ ~ (best_distance < OneNM)
  /\ astar_path' = << find_direct_path_with_avoidance(obstacles, start_pos, goal_pos) >>
  /\ simplify_input' = IF is_path_safe(obstacles, start_pos, goal_pos) THEN None
                       ELSE << DirectChain(obstacles, start_pos, goal_pos) >>
  /\ astar_branch' = "direct"
  /\ astar_pc' = "done"
  /\ UNCHANGED << obstacles, start_pos, goal_pos, open_set, closed_set, iteration,
                  best_node, best_distance, route_vars, cc_vars, od_vars, fx_vars, ext_vars >>

AstarNext == FindPathAstar \/ AstarIteration \/ ReturnPartialPath \/ ReturnDirectPath

SpecAstar == AstarInit /\ [][AstarNext]_vars

\* some segment between consecutive waypoints of the path meets a buffered obstacle
CrossesObstacle(path) ==
  \E i \in 1..(Len(path) - 1) : ~ is_path_safe(obstacles, path[i], path[i + 1])

\* C1: every path find_path_astar returns, from whichever return statement, has no
\* two consecutive waypoints whose segment meets an obstacle's buffered polygon.
C1_PathAvoidsObstacles ==
  astar_pc = "done" => ~ CrossesObstacle(astar_path[1])


(***************************************************************************)
(* CollisionChecker with a check time, PathAdjuster.find_safe_departure_time *)
(* and RouteOptimizer.optimize_route (core_optimizer_latlng.py).           *)
(* A travel time in hours is a fraction << num, den >>, den # 0; None when *)
(* the argument is not given.                                              *)
(***************************************************************************)

COLLISION_RADIUS_NM == 500

\* int(a / b): rounds towards zero
TruncDiv(a, b) ==
  LET q == Abs(a) \div Abs(b)
  IN IF (a < 0) = (b < 0) THEN q ELSE 0 - q

\* a / b rounded down to the clock tick
FloorDiv(a, b) == IF b > 0 THEN a \div b ELSE (0 - a) \div (0 - b)

\* is_position_safe(lat, lng, ignore_buffer=True): only the raw polygons are tested
is_position_safe_ignore_buffer(obs, p) == \A R \in obs : ~ RectContains(R, p)

\* the loop over existing_routes of is_position_safe
ShipsClear(routes, p, check_time) ==
  \A k \in 1..Len(routes) :
    LET other_pos == get_position_at_time(routes[k], check_time)
    IN other_pos # None => ~ (haversine_distance(p, other_pos) < COLLISION_RADIUS_NM)

\* is_position_safe(lat, lng, check_time)
is_position_safe_at(obs, routes, p, check_time) ==
  is_position_safe(obs, p) /\ ShipsClear(routes, p, check_time)

\* num_samples = max(2, int(travel_time_hours * 4))
num_samples(travel) == Max2(2, TruncDiv(travel[1] * 4, travel[2]))

\* the points and times is_path_safe samples, in order
PathSamples(p, q, start_time, travel) ==
  LET n == num_samples(travel)
  IN [ i \in 1..n |->
         [ pos |-> interpolate_position(p, q, i - 1, n - 1),
           time |-> start_time + FloorDiv(60 * travel[1] * (i - 1), travel[2] * (n - 1)) ] ]

\* is_path_safe(lat1, lng1, lat2, lng2, start_time, travel_time_hours)
is_path_safe_timed(obs, routes, p, q, start_time, travel) ==
  /\ is_path_safe(obs, p, q)
  /\ (start_time # None /\ travel # None /\ travel[1] # 0) =>
       LET samples == PathSamples(p, q, start_time[1], travel)
       IN \A i \in 1..Len(samples) :
            is_position_safe_at(obs, routes, samples[i].pos, samples[i].time)

max_delay_hours == 24
HalfHour == 30

\* the route of the given path is safe when it leaves at test_time
RouteSafeAt(obs, routes, path, test_time, speed_knots) ==
  LET test_route == calculate_timestamps(ShipRoute(path, test_time, FALSE, speed_knots), 0)
  IN \A i \in 1..(Len(path) - 1) :
       is_path_safe_timed(obs, routes, path[i], path[i + 1], << test_route.timestamps[i] >>,
                          << haversine_distance(path[i], path[i + 1]), 1000 * speed_knots >>)

\* the alternative times, in the order tried: +0.5 h, -0.5 h, +1 h, -1 h, ... 23.5 h
TestTimes(preferred_time) ==
  [ k \in 1..(2 * (2 * max_delay_hours - 1)) |->
      preferred_time + HalfHour * ((k + 1) \div 2) * (IF k % 2 = 1 THEN 1 ELSE -1) ]

\* find_safe_departure_time for a speed other than zero: << the time >> or None
find_safe_departure_time(obs, routes, path, preferred_time, speed_knots) ==
  IF RouteSafeAt(obs, routes, path, preferred_time, speed_knots) THEN << preferred_time >>
  ELSE LET times == TestTimes(preferred_time)
           ok == { k \in 1..Len(times) : RouteSafeAt(obs, routes, path, times[k], speed_knots) }
       IN IF ok = {} THEN None ELSE << times[CHOOSE k \in ok : \A m \in ok : k <= m] >>

\* the dict optimize_route returns; travel_time in minutes
RouteResult(success, message, waypoints, dep, arrival_time, distance, travel_time, adjusted) ==
  [ success |-> success, message |-> message, waypoints |-> waypoints,
    departure_time |-> dep, arrival_time |-> arrival_time, distance |-> distance,
    travel_time |-> travel_time, time_adjusted |-> adjusted ]

\* the start lies in a raw polygon and has no safe neighbour
Harbour == { [ lo |-> << -3, -3 >>, hi |-> << 3, 3 >> ] }

PlanScenarios ==
  { [ obstacles |-> {},      goal |-> << 14, 24 >> ],
    [ obstacles |-> {},      goal |-> << 0, 400 >> ],
    [ obstacles |-> Block,   goal |-> << 0, 14 >> ],
    [ obstacles |-> Harbour, goal |-> << 0, 30 >> ],
    [ obstacles |-> Ring,    goal |-> << 0, 400 >> ] }

PlanSpeeds == { -5, 0, 12 }

PlanDeparture == 2000

\* a ship that lies at << 0, 400 >> from 10 minutes before the requested departure on
Moored == calculate_timestamps(ShipRoute(<< << 0, 400 >> >>, PlanDeparture - 10, FALSE, 10), 0)

\* a ship that has lain at << 0, 400 >> since before every time the search tries
Anchored == calculate_timestamps(ShipRoute(<< << 0, 400 >> >>, 0, FALSE, 10), 0)

PlanInit ==
  /\ \E sc \in PlanScenarios : obstacles = sc.obstacles /\ goal_pos = sc.goal
  /\ start_pos = AstarStart
  /\ astar_pc = "call"
  /\ open_set = << >> /\ closed_set = {} /\ iteration = 0 /\ best_node = None
  /\ best_distance = 0 /\ astar_path = None /\ astar_branch = "none"
  /\ simplify_input = None
  /\ or_pc = "call"
  /\ or_speed \in PlanSpeeds
  /\ or_departure_time = PlanDeparture
  /\ or_allow_time_adjustment \in BOOLEAN
  /\ or_existing_routes \in { << >>, << Moored >>, << Anchored >> }
  /\ or_result = None
  /\ RouteIdle /\ CcIdle /\ OdIdle /\ FxIdle /\ CqIdle /\ ApiIdle /\ PsIdle /\ MoreIdle

\* optimize_route from the return of find_path_astar on
OptimizeRoute ==
  /\ or_pc = "call"
  /\ astar_pc = "done"
  /\ LET waypoints == astar_path[1]
     IN IF waypoints = None \/ waypoints = << >>
        THEN /\ or_result' = RouteResult(FALSE, "No valid path found", None, None, None,
                                         None, None, FALSE)
             /\ or_pc' = "done"
        ELSE IF or_allow_time_adjustment /\ or_speed = 0 /\ Len(waypoints) >= 2
        THEN \* distance_nm / speed in find_safe_departure_time: ZeroDivisionError
             /\ or_result' = None
             /\ or_pc' = "raised"
        ELSE LET safe_departure ==
                   IF or_allow_time_adjustment
                   THEN find_safe_departure_time(obstacles, or_existing_routes, waypoints,
                                                 or_departure_time, or_speed)
                   ELSE None
                 final_departure ==
                   IF safe_departure # None THEN safe_departure[1] ELSE or_departure_time
                 r == calculate_timestamps(
                        ShipRoute(waypoints, final_departure, FALSE, or_speed), 0)
             IN /\ or_result' =
                     RouteResult(TRUE, "Route optimized successfully", waypoints,
                                 final_departure, Last(r.timestamps), r.path_length_nm,
                                 IF or_speed > 0
                                 THEN TravelMinutes(r.path_length_nm, or_speed) ELSE 0,
                                 final_departure # or_departure_time)
                /\ or_pc' = "done"
  /\ UNCHANGED << or_speed, or_departure_time, or_allow_time_adjustment, or_existing_routes,
                  route_vars, cc_vars, od_vars, fx_vars, astar_vars, cq_vars,
                  api_vars, ps_vars, more_vars >>

PlanNext == AstarNext \/ OptimizeRoute

SpecPlan == PlanInit /\ [][PlanNext]_vars

start_in_obstacle == ~ is_position_safe_ignore_buffer(obstacles, start_pos)
goal_in_obstacle == ~ is_position_safe_ignore_buffer(obstacles, goal_pos)

\* C11: when the start or the goal lies inside an obstacle's raw polygon, optimize_route
\* does not return a successful route: it reports a failure that is not the
\* no-path-found one.
C11_UnsafeEndpointReported ==
  (or_pc = "done" /\ (start_in_obstacle \/ goal_in_obstacle)) =>
    (~ or_result.success /\ or_result.message # "No valid path found")

\* C12: for a speed of zero or below optimize_route completes without raising, whether
\* allow_time_adjustment is true or false.
C12_NonPositiveSpeedCompletes ==
  or_speed <= 0 => or_pc # "raised"

\* C13: when find_path_astar ends in its direct fallback and the chain of waypoints the
\* fallback builds still crosses an obstacle, find_path_astar returns no path and
\* optimize_route answers success=False with the message 'No valid path found'.
C13_FailedFallbackReturnsNoPath ==
  (or_pc = "done" /\ astar_branch = "direct" /\ CrossesObstacle(astar_path[1])) =>
    (~ or_result.success /\ or_result.message = "No valid path found")

\* C14: in every successful result, arrival_time - departure_time is the total distance
\* divided by the speed and is the returned travel_time (up to the rounding of one
\* clock tick per leg).
C14_ArrivalMatchesTravelTime ==
  (or_pc = "done" /\ or_result.success) =>
    LET elapsed == or_result.arrival_time - or_result.departure_time
        legs == Len(or_result.waypoints) - 1
    IN /\ Abs(elapsed - or_result.travel_time) <= legs
       /\ or_speed # 0
       /\ Abs(elapsed - FloorDiv(or_result.distance * 60, 1000 * or_speed)) <= legs

(***************************************************************************)
(* Termination of find_path_astar                                          *)
(***************************************************************************)

\* The call keeps running until it returns: weak fairness of AstarNext, with the
\* enabling condition of AstarNext written out (a step is possible exactly while the
\* call has not returned).
SpecAstarLive ==
  /\ AstarInit
  /\ [][AstarNext]_vars
  /\ ([]<>(astar_pc = "done") \/ []<><< AstarNext >>_vars)

RECURSIVE SimplifyIterations(_, _, _, _)
\* how many times the body of the while loop of simplify_path runs, from index i on
SimplifyIterations(obs, path, i, done) ==
  IF i >= Len(path) THEN done
  ELSE SimplifyIterations(obs, path, FurthestReachable(obs, path, i, i + 2, i + 1), done + 1)

\* C15: find_path_astar terminates: the main loop never runs more than max_iterations
\* times, simplify_path runs its loop fewer times than its input has waypoints, and every
\* call returns.
C15_SearchTerminates ==
  /\ [](/\ iteration <= MaxIterations
        /\ simplify_input # None =>
             SimplifyIterations(obstacles, simplify_input[1], 1, 0)
               <= Max2(Len(simplify_input[1]) - 1, 0))
  /\ <>(astar_pc = "done")

\* the loop was ended by the cap on the iterations, and a path of several waypoints was
\* simplified
C15_Witness ==
  /\ astar_pc = "done"
  /\ iteration = MaxIterations
  /\ open_set # << >>
  /\ simplify_input # None
  /\ Len(simplify_input[1]) > 2

(***************************************************************************)
(* Several calls of find_path_astar on the one RouteOptimizer of app.py.   *)
(* Calls 1 and 2 run one after the other; calls 3 and 4 are given the same *)
(* arguments as 1 and 2 and run interleaved, a step being the statements   *)
(* before the loop, one pass of the loop, or the statements after it.      *)
(***************************************************************************)

CallIds == 1..4

\* a wall in front of the goal of the long course
Gate == { [ lo |-> << -20, 470 >>, hi |-> << 20, 474 >> ] }

CqObstacleSets == { {}, Gate }

\* << start, goal >> of the first and of the second call
CqRequests ==
  { << << << 0, 0 >>, << 0, 510 >> >>, << << 0, 2000 >>, << 0, 2004 >> >> >>,
    << << << 0, 0 >>, << 0, 510 >> >>, << << 0, 20 >>, << 0, 26 >> >> >>,
    << << << 0, 0 >>, << 0, 30 >> >>, << << 0, 2000 >>, << 0, 2004 >> >> >> }

IdleCall(start, goal) ==
  [ pc |-> "call", start |-> start, goal |-> goal, open_set |-> << >>, closed_set |-> {},
    iteration |-> 0, best_node |-> None, best_distance |-> 0, path |-> None,
    branch |-> "none" ]

CqInit ==
  /\ cq_obstacles \in CqObstacleSets
  /\ self_start = None
  /\ \E rq \in CqRequests :
       calls = [ c \in CallIds |->
                   IF c \in { 1, 3 } THEN IdleCall(rq[1][1], rq[1][2])
                   ELSE IdleCall(rq[2][1], rq[2][2]) ]
  /\ RouteIdle /\ CcIdle /\ OdIdle /\ FxIdle /\ AstarIdle /\ OrIdle /\ ApiIdle /\ PsIdle /\ MoreIdle

\* call c may begin: 2 after 1 has returned, 3 and 4 after 1 and 2 have returned
MayBegin(c) ==
  CASE c = 1 -> TRUE
    [] c = 2 -> calls[1].pc = "done"
    [] OTHER -> calls[1].pc = "done" /\ calls[2].pc = "done"

\* the statements before the while loop: self.start_lat and self.start_lng are set
CqFindPathAstar ==
  \E c \in CallIds :
    /\ calls[c].pc = "call"
    /\ MayBegin(c)
    /\ self_start' = calls[c].start
    /\ LET h == haversine_distance(calls[c].start, calls[c].goal)
           start_node == Node(calls[c].start, 0, h, << calls[c].start >>)
       IN calls' = [ calls EXCEPT ![c] =
                       [ @ EXCEPT !.pc = "loop", !.open_set = heappush(<< >>, start_node),
                                  !.closed_set = {}, !.iteration = 0,
                                  !.best_node = start_node, !.best_distance = h ] ]
    /\ UNCHANGED << cq_obstacles, route_vars, cc_vars, od_vars, fx_vars, astar_vars, or_vars,
                    api_vars, ps_vars, more_vars >>

\* one pass of the while loop of call c; get_neighbors reads self.start_lat, self.start_lng
CqAstarIteration ==
  \E c \in CallIds :
    /\ calls[c].pc = "loop"
    /\ LoopContinues(calls[c].open_set, calls[c].iteration)
    /\ LET me == calls[c]
           popped == heappop(me.open_set)
           current == popped[1]
           current_distance == haversine_distance(current.pos, me.goal)
           better == current_distance < me.best_distance
           tracked == [ me EXCEPT !.iteration = me.iteration + 1,
                                  !.best_node = IF better THEN current ELSE @,
                                  !.best_distance = IF better THEN current_distance ELSE @ ]
       IN calls' = [ calls EXCEPT ![c] =
                       IF WithinTolerance(current.pos, me.goal)
                       THEN [ tracked EXCEPT !.path = << simplify_path(cq_obstacles, current.path) >>,
                                             !.branch = "found", !.pc = "done",
                                             !.open_set = popped[2] ]
                       ELSE [ tracked EXCEPT
                                !.closed_set = me.closed_set \cup { current.pos },
                                !.open_set =
                                  PushNeighbors(popped[2], me.closed_set \cup { current.pos },
                                                get_neighbors(cq_obstacles, self_start, current,
                                                              me.goal), 1) ] ]
    /\ UNCHANGED << cq_obstacles, self_start, route_vars, cc_vars, od_vars, fx_vars,
                    astar_vars, or_vars, api_vars, ps_vars, more_vars >>

\* the loop of call c has ended within 1 NM of the goal
CqReturnPartialPath ==
  \E c \in CallIds :
    /\ calls[c].pc = "loop"
    /\ ~ LoopContinues(calls[c].open_set, calls[c].iteration)
    /\ calls[c].best_distance < OneNM
    /\ calls' = [ calls EXCEPT ![c] =
                    [ @ EXCEPT !.path = << simplify_path(cq_obstacles,
                                             Append(calls[c].best_node.path, calls[c].goal)) >>,
                               !.branch = "partial", !.pc = "done" ] ]
    /\ UNCHANGED << cq_obstacles, self_start, route_vars, cc_vars, od_vars, fx_vars,
                    astar_vars, or_vars, api_vars, ps_vars, more_vars >>

\* the loop of call c has ended farther away
CqReturnDirectPath ==
  \E c \in CallIds :
    /\ calls[c].pc = "loop"
    /\ ~ LoopContinues(calls[c].open_set, calls[c].iteration)
    /\ ~ (calls[c].best_distance < OneNM)
    /\ calls' = [ calls EXCEPT ![c] =
                    [ @ EXCEPT !.path = << find_direct_path_with_avoidance(
                                             cq_obstacles, calls[c].start, calls[c].goal) >>,
                               !.branch = "direct", !.pc = "done" ] ]
    /\ UNCHANGED << cq_obstacles, self_start, route_vars, cc_vars, od_vars, fx_vars,
                    astar_vars, or_vars, api_vars, ps_vars, more_vars >>

CqNext == CqFindPathAstar \/ CqAstarIteration \/ CqReturnPartialPath \/ CqReturnDirectPath

SpecConcurrent == CqInit /\ [][CqNext]_vars

\* C16: two calls with different start/goal pairs interleaved on one RouteOptimizer
\* each return the path the same call returns when the two run one after the other.
C16_InterleavedAsSequential ==
  (\A c \in CallIds : calls[c].pc = "done") =>
    (calls[3].path = calls[1].path /\ calls[4].path = calls[2].path)


-----------------------------------------------------------------------------
\* POST /api/route/plan and POST /api/route/accept (app.py) over the
\* ship_routes table (database.py, class ShipRoute).

\* the attributes of database.ShipRoute: its columns and its methods
DBShipRouteAttributes ==
  { "id", "ship_id", "ship_name", "start_x", "start_y", "goal_x", "goal_y",
    "requested_departure", "actual_departure", "arrival_time", "speed_knots",
    "path_points", "path_speeds", "path_length_nm", "status", "optimization_mode",
    "created_at", "updated_at", "get_path", "set_path", "get_speeds", "set_speeds" }

\* the keywords plan_route passes to the DBShipRoute constructor
PlanRouteKeywords ==
  { "ship_id", "ship_name", "start_lat", "start_lng", "goal_lat", "goal_lng",
    "requested_departure", "actual_departure", "arrival_time", "speed_knots",
    "path_length_nm", "status", "optimization_mode" }

\* the attributes get_existing_ships reads without hasattr from each row it converts
ExistingShipReads ==
  { "get_path", "start_x", "start_y", "goal_x", "goal_y", "name", "ship_id",
    "actual_departure", "speed_knots" }

\* the attributes the reject branch of accept_route reads from the row
AcceptRouteReads ==
  { "name", "ship_id", "start_x", "start_y", "goal_x", "goal_y", "get_path",
    "requested_departure", "speed_knots" }

\* the methods of core_optimizer_latlng.RouteOptimizer, the class of route_optimizer
RouteOptimizerMethods ==
  { "get_neighbors", "find_path_astar", "simplify_path",
    "find_direct_path_with_avoidance", "optimize_route", "optimize_departure_time" }

\* the methods the reject branch of accept_route calls on route_optimizer
AcceptRouteCalls == { "optimize_fixed_time", "calculate_path_length" }

\* the declarative constructor raises TypeError for a keyword that is no attribute
ConstructorRaises(keywords) == keywords \ DBShipRouteAttributes # {}

\* plain attribute access raises AttributeError for a name the object lacks
AttributeErrorOn(reads, attributes) == reads \ attributes # {}

ApiShips == { "S1", "S2" }

ApiDepartures == { 30, 45 }

MaxRequests == 3

DBRow(requested, actual, status, mode) ==
  [ requested_departure |-> requested, actual_departure |-> actual,
    status |-> status, optimization_mode |-> mode ]

\* rows the table may hold at start
StoredRows ==
  { DBRow(45, 50, "pending", "flexible"), DBRow(45, 50, "accepted", "flexible") }

ApiInit ==
  /\ db_routes \in [ ApiShips -> { None } \cup StoredRows ]
  /\ responses = << >>
  \* the rows stored at start were planned against the rows accepted at start
  /\ conflict_checked =
       { p \in ApiShips \X ApiShips :
           /\ p[1] # p[2] /\ db_routes[p[1]] # None /\ db_routes[p[2]] # None
           /\ db_routes[p[2]].status = "accepted" }
  /\ RouteIdle /\ CcIdle /\ OdIdle /\ FxIdle /\ AstarIdle /\ OrIdle /\ CqIdle /\ PsIdle /\ MoreIdle

\* get_existing_ships(db, exclude_ship_id): the accepted or active rows of the others
ExistingRows(db, exclude_ship_id) ==
  { s \in ApiShips \ { exclude_ship_id } :
      db[s] # None /\ db[s].status \in { "accepted", "active" } }

GetExistingShipsRaises(db, exclude_ship_id) ==
  /\ ExistingRows(db, exclude_ship_id) # {}
  /\ AttributeErrorOn(ExistingShipReads, DBShipRouteAttributes)

Served(endpoint, ship_id, departure_time, accept, status_code) ==
  [ endpoint |-> endpoint, ship_id |-> ship_id, departure_time |-> departure_time,
    accept |-> accept, status_code |-> status_code ]

\* plan_route: the path is found (routable) or the request is answered 400;
\* recommended is optimal_time: departure_time when there is no other committed
\* ship, and some time of the window otherwise
PlanRoute ==
  /\ Len(responses) < MaxRequests
  /\ \E ship_id \in ApiShips, departure_time \in ApiDepartures, routable \in BOOLEAN,
        recommended \in ApiDepartures :
       /\ (ExistingRows(db_routes, ship_id) = {}) => recommended = departure_time
       /\ LET status_code ==
                IF GetExistingShipsRaises(db_routes, ship_id) THEN 500
                ELSE IF ~ routable THEN 400
                ELSE IF ConstructorRaises(PlanRouteKeywords) THEN 500
                ELSE 200
          IN /\ responses' = Append(responses,
                  Served("plan", ship_id, departure_time, FALSE, status_code))
             /\ db_routes' =
                  IF status_code = 200
                  THEN [ db_routes EXCEPT ![ship_id] =
                           DBRow(departure_time, recommended, "pending", "flexible") ]
                  ELSE db_routes
             \* optimize_departure_time(new_ship, existing_ships)
             /\ conflict_checked' =
                  IF status_code = 200
                  THEN conflict_checked
                         \cup { << ship_id, t >> : t \in ExistingRows(db_routes, ship_id) }
                  ELSE conflict_checked
  /\ UNCHANGED << route_vars, cc_vars, od_vars, fx_vars, astar_vars, or_vars, cq_vars,
                  ps_vars, more_vars >>

\* accept_route
AcceptRoute ==
  /\ Len(responses) < MaxRequests
  /\ \E ship_id \in ApiShips, accept \in BOOLEAN :
       LET db_ship == db_routes[ship_id]
           raises ==
             \/ GetExistingShipsRaises(db_routes, ship_id)
             \/ AttributeErrorOn(AcceptRouteReads, DBShipRouteAttributes)
             \/ AttributeErrorOn(AcceptRouteCalls, RouteOptimizerMethods)
           status_code ==
             IF db_ship = None THEN 404
             ELSE IF accept THEN 200
             ELSE IF raises THEN 500
             ELSE 200
       IN /\ responses' = Append(responses,
               Served("accept", ship_id, None, accept, status_code))
          /\ db_routes' =
               IF status_code # 200 THEN db_routes
               ELSE IF accept
               THEN [ db_routes EXCEPT ![ship_id].status = "accepted",
                                       ![ship_id].optimization_mode = "flexible" ]
               ELSE [ db_routes EXCEPT ![ship_id].actual_departure =
                                         db_ship.requested_departure,
                                       ![ship_id].status = "accepted",
                                       ![ship_id].optimization_mode = "fixed" ]
          \* the accept branch calls no optimizer; the reject branch calls
          \* optimize_fixed_time(ship, existing_ships)
          /\ conflict_checked' =
               IF status_code = 200 /\ ~ accept
               THEN conflict_checked
                      \cup { << ship_id, t >> : t \in ExistingRows(db_routes, ship_id) }
               ELSE conflict_checked
  /\ UNCHANGED << route_vars, cc_vars, od_vars, fx_vars, astar_vars, or_vars, cq_vars,
                  ps_vars, more_vars >>

ApiNext == PlanRoute \/ AcceptRoute

SpecApi == ApiInit /\ [][ApiNext]_vars

\* C17: when a plan request with departure d for a ship (one for which a path
\* exists) is followed by an accept request with accept = False for that ship,
\* the accept request succeeds and the stored route has actual departure d,
\* status 'accepted' and mode 'fixed'.
C17_RejectKeepsRequestedDeparture ==
  LET n == Len(responses)
  IN (/\ n >= 2
      /\ responses[n - 1].endpoint = "plan"
      /\ responses[n - 1].status_code # 400
      /\ responses[n].endpoint = "accept"
      /\ responses[n].ship_id = responses[n - 1].ship_id
      /\ ~ responses[n].accept) =>
       LET db_ship == db_routes[responses[n].ship_id]
       IN /\ responses[n].status_code = 200
          /\ db_ship # None
          /\ db_ship.actual_departure = responses[n - 1].departure_time
          /\ db_ship.status = "accepted"
          /\ db_ship.optimization_mode = "fixed"


-----------------------------------------------------------------------------
\* Calls of CollisionChecker.is_position_safe and CollisionChecker.is_path_safe
\* with every combination of their optional arguments.

\* is_position_safe(lat, lng, check_time, ignore_buffer); check_time is None or << t >>
is_position_safe_call(obs, routes, p, check_time, ignore_buffer) ==
  /\ IF ignore_buffer THEN is_position_safe_ignore_buffer(obs, p)
                      ELSE is_position_safe(obs, p)
  /\ check_time # None => ShipsClear(routes, p, check_time[1])

\* the sampling branch of is_path_safe is entered: both arguments are truthy
SamplesTaken(start_time, travel) ==
  start_time # None /\ travel # None /\ travel[1] # 0

PsCoords == { -7, -6, -4, -3, -2, 0, 3, 7 }

PsPoints == { << a, b >> : a \in PsCoords, b \in PsCoords }

PsObstacleSets == { {}, Harbour, Block, Harbour \cup Block }

PsStart == 2000

\* a ship that lies at << 0, -134 >> from 10 minutes before PsStart on
PsMoored ==
  calculate_timestamps(ShipRoute(<< << 0, -134 >> >>, PsStart - 10, FALSE, 10), 0)

PsSegments ==
  { << << 0, -200 >>, << 0, 200 >> >>, << << 0, -200 >>, << 300, -200 >> >>,
    << << 20, -7 >>, << 20, 7 >> >> }

\* travel_time_hours as << minutes, 60 >>
PsTravelTimes == { << m, 60 >> : m \in { 0, 10, 15, 30, 60, 120 } }

PsInit ==
  /\ ps_obstacles \in PsObstacleSets
  /\ ps_routes \in { << >>, << PsMoored >> }
  /\ ps_call = None
  /\ ps_samples = << >>
  /\ ps_result = FALSE
  /\ RouteIdle /\ CcIdle /\ OdIdle /\ FxIdle /\ AstarIdle /\ OrIdle /\ CqIdle /\ ApiIdle /\ MoreIdle

IsPositionSafe ==
  /\ \E p \in PsPoints, check_time \in { None, << PsStart >> }, ignore_buffer \in BOOLEAN :
       /\ ps_call' = [ op |-> "is_position_safe", p |-> p, check_time |-> check_time,
                       ignore_buffer |-> ignore_buffer ]
       /\ ps_samples' = << >>
       /\ ps_result' = is_position_safe_call(ps_obstacles, ps_routes, p, check_time,
                                             ignore_buffer)
  /\ UNCHANGED << ps_obstacles, ps_routes, route_vars, cc_vars, od_vars, fx_vars,
                  astar_vars, or_vars, cq_vars, api_vars, more_vars >>

IsPathSafe ==
  /\ \E seg \in PsSegments, start_time \in { None, << PsStart >> },
        travel \in { None } \cup PsTravelTimes :
       /\ ps_call' = [ op |-> "is_path_safe", p |-> seg[1], q |-> seg[2],
                       start_time |-> start_time, travel |-> travel ]
       /\ ps_samples' =
            IF is_path_safe(ps_obstacles, seg[1], seg[2]) /\ SamplesTaken(start_time, travel)
            THEN PathSamples(seg[1], seg[2], start_time[1], travel)
            ELSE << >>
       /\ ps_result' = is_path_safe_timed(ps_obstacles, ps_routes, seg[1], seg[2],
                                          start_time, travel)
  /\ UNCHANGED << ps_obstacles, ps_routes, route_vars, cc_vars, od_vars, fx_vars,
                  astar_vars, or_vars, cq_vars, api_vars, more_vars >>

PsNext == IsPositionSafe \/ IsPathSafe

SpecSafety == PsInit /\ [][PsNext]_vars

\* C18: a point the raw polygon of an obstacle contains is contained by its
\* buffered polygon; so a position is_position_safe accepts with the buffer is
\* accepted with ignore_buffer = True as well (same check_time).
C18_BufferedSafeImpliesRawSafe ==
  (ps_call # None /\ ps_call.op = "is_position_safe") =>
    /\ \A R \in ps_obstacles : RectContains(R, ps_call.p) => contains_point(R, ps_call.p)
    /\ (~ ps_call.ignore_buffer /\ ps_result) =>
         is_position_safe_call(ps_obstacles, ps_routes, ps_call.p, ps_call.check_time, TRUE)
    /\ (ps_call.ignore_buffer /\ ~ ps_result) =>
         ~ is_position_safe_call(ps_obstacles, ps_routes, ps_call.p, ps_call.check_time,
                                 FALSE)

\* a position in the raw polygon is rejected with ignore_buffer = True
C18_Witness ==
  /\ ps_call # None /\ ps_call.op = "is_position_safe"
  /\ ps_call.ignore_buffer /\ ~ ps_result
  /\ \E R \in ps_obstacles : RectContains(R, ps_call.p)
  /\ ps_call.check_time # None /\ ps_routes # << >>
  /\ ShipsClear(ps_routes, ps_call.p, ps_call.check_time[1])

\* C19: a call of is_path_safe with start_time and a positive travel_time_hours
\* that gets past the obstacle test samples at least 2 positions, the first and the last
\* being the endpoints, no two consecutive samples more than 15 simulated
\* minutes apart, and returns true only if every sample is_position_safe.
C19_SamplesEveryQuarterHour ==
  (/\ ps_call # None /\ ps_call.op = "is_path_safe"
   /\ ps_call.start_time # None /\ ps_call.travel # None /\ ps_call.travel[1] > 0
   /\ is_path_safe(ps_obstacles, ps_call.p, ps_call.q)) =>
    LET n == Len(ps_samples)
    IN /\ n >= 2
       /\ ps_samples[1].pos = ps_call.p
       /\ ps_samples[n].pos = ps_call.q
       /\ \A i \in 1..(n - 1) : ps_samples[i + 1].time - ps_samples[i].time <= 15
       /\ ps_result =>
            \A i \in 1..n :
              is_position_safe_at(ps_obstacles, ps_routes, ps_samples[i].pos,
                                  ps_samples[i].time)


-----------------------------------------------------------------------------
\* RouteOptimizer.simplify_path on chains whose consecutive segments are clear,
\* as the chains find_path_astar passes to it are.

Pillar == { [ lo |-> << 10, -2 >>, hi |-> << 14, 2 >> ] }

SpPoints == { << 0, 0 >>, << 0, 30 >>, << 30, 0 >>, << 30, 30 >>, << 12, 30 >> }

MaxChain == 4

\* the chains of distinct points of 2..MaxChain points, every leg clear of obs
SpChains(obs) ==
  { c \in UNION { [ 1..n -> SpPoints ] : n \in 2..MaxChain } :
      /\ \A i, j \in 1..Len(c) : i # j => c[i] # c[j]
      /\ \A i \in 1..(Len(c) - 1) : is_path_safe(obs, c[i], c[i + 1]) }

SpInit ==
  /\ sp_obstacles \in { {}, Pillar }
  /\ sp_path \in SpChains(sp_obstacles)
  /\ sp_result = None
  /\ RouteIdle /\ CcIdle /\ OdIdle /\ FxIdle /\ AstarIdle
  /\ OrIdle /\ CqIdle /\ ApiIdle /\ PsIdle /\ TaIdle

SimplifyPath ==
  /\ sp_result = None
  /\ sp_result' = << simplify_path(sp_obstacles, sp_path) >>
  /\ UNCHANGED << sp_obstacles, sp_path, route_vars, cc_vars, od_vars, fx_vars, astar_vars,
                  or_vars, cq_vars, api_vars, ps_vars, ta_vars >>

SpNext == SimplifyPath

SpecSimplify == SpInit /\ [][SpNext]_vars

\* the position of waypoint w in the path passed in
SpIndex(w) == CHOOSE i \in 1..Len(sp_path) : sp_path[i] = w

-----------------------------------------------------------------------------
\* PathAdjuster.find_alternative_path as optimize_fixed_time calls it: the path
\* it returned for the check time and avoidance factor tried last.

\* the loop indices of the call of find_alternative_path made last
LastTried ==
  IF fx_index[2] > 1 THEN << fx_index[1], fx_index[2] - 1 >>
  ELSE << fx_index[1] - 1, Len(AvoidanceFactors) >>

LastTempObstacles ==
  TempObstacles(fx_existing_ships, check_times[LastTried[1]],
                RadiusCells(AvoidanceFactors[LastTried[2]]))

LastAlternativePath ==
  find_alternative_path(fx_new_ship.start, fx_new_ship.goal, fx_existing_ships,
                        check_times[LastTried[1]], AvoidanceFactors[LastTried[2]])

SegmentParts == 16

\* points of the segment a-b: its ends and the points between at every 1/SegmentParts
PointsOn(a, b) == { interpolate_position(a, b, k, SegmentParts) : k \in 0..SegmentParts }

\* C22: a path find_alternative_path returns (start and goal cells themselves
\* outside the footprint) has no waypoint and no point of a segment in a grid
\* cell marked as temporary obstacle.
C22_AlternativeClearOfFootprint ==
  (/\ fx_pc \in { "search", "done" } /\ check_times # << >> /\ LastTried[1] >= 1
   /\ LastAlternativePath # None
   /\ ToGrid(fx_new_ship.start) \notin LastTempObstacles
   /\ ToGrid(fx_new_ship.goal) \notin LastTempObstacles) =>
     LET alt_path == LastAlternativePath
     IN \A i \in 1..(Len(alt_path) - 1) :
          \A pt \in PointsOn(alt_path[i], alt_path[i + 1]) :
            ToGrid(pt) \notin LastTempObstacles


-----------------------------------------------------------------------------
\* The departure time optimize_route returns with allow_time_adjustment = True.

\* C23: optimize_route with allow_time_adjustment = True returns a departure time
\* never earlier than the requested one, and different from it only by an offset
\* of +3 to +10 minutes.
C23_DepartureWithinFlexibleWindow ==
  (or_pc = "done" /\ or_result.success /\ or_allow_time_adjustment) =>
    /\ or_result.departure_time >= or_departure_time
    /\ or_result.departure_time # or_departure_time =>
         (or_result.departure_time - or_departure_time) \in 3..10

\* C28: whenever optimize_route with allow_time_adjustment = True (and a positive
\* speed) returns success with a path clear of the obstacles, every segment of
\* the returned path, timed from the returned departure time, passes
\* is_path_safe against the committed routes.
C28_ReturnedRouteIsSafe ==
  (/\ or_pc = "done" /\ or_result.success /\ or_allow_time_adjustment
   /\ or_speed > 0 /\ ~ CrossesObstacle(or_result.waypoints)) =>
    RouteSafeAt(obstacles, or_existing_routes, or_result.waypoints,
                or_result.departure_time, or_speed)


-----------------------------------------------------------------------------
\* ShipRoute.calculate_timestamps called again on a route it has already timed.

\* C24: a second call of calculate_timestamps, at whatever time it is made, with
\* path, departure time and speed unchanged leaves timestamps, path_length_nm
\* and departure_time as the first call left them.
C24_CalculateTimestampsIdempotent ==
  (route_pc = "timed" /\ route_class = "latlng") =>
    \A later \in now..(now + MaxQueryTime) :
      LET again == calculate_timestamps(route, later)
      IN /\ again.timestamps = route.timestamps
         /\ again.path_length_nm = route.path_length_nm
         /\ again.departure_time = route.departure_time
         /\ again = route

\* a route of three waypoints whose departure was given in minutes from now
C24_Witness ==
  /\ route_pc = "timed" /\ route_class = "latlng"
  /\ Len(route.path) = 3 /\ route.path[1] # route.path[2] /\ route.path[2] # route.path[3]
  /\ route.path_length_nm > 0
  /\ route.departure_time = now + 5


-----------------------------------------------------------------------------
\* optimize_departure_time and optimize_fixed_time, either being called.

OptimizersInit == OdInit \/ FxInit

OptimizersNext == OdNext \/ FxNext

SpecOptimizers == OptimizersInit /\ [][OptimizersNext]_vars

-----------------------------------------------------------------------------
\* The accepted rows of the ship_routes table.

Accepted(ship_id) == db_routes[ship_id] # None /\ db_routes[ship_id].status = "accepted"

-----------------------------------------------------------------------------
\* C27: every path find_path_astar returns has the start as its first waypoint
\* and the exact goal coordinate as its last waypoint.
C27_PathRunsFromStartToExactGoal ==
  (astar_pc = "done" /\ astar_path # None) =>
    /\ astar_path[1][1] = start_pos
    /\ astar_path[1][Len(astar_path[1])] = goal_pos

-----------------------------------------------------------------------------
(***************************************************************************)
(* PathAdjuster._astar_with_temp_obstacles on its own (core_optimizer.py)  *)
(***************************************************************************)

\* the cells of column gx
Column(gx) == { c \in Cells : c[1] = gx }

\* the footprint find_alternative_path marks around a vessel in cell c
Footprint(c, radius_cells) ==
  { d \in Cells : /\ Dist2(d, c) <= radius_cells * radius_cells
                  /\ Abs(d[1] - c[1]) <= radius_cells /\ Abs(d[2] - c[2]) <= radius_cells }

TaStarts == { << 0, 150 >>, << 25, 25 >>, << 275, 150 >> }

TaGoals == { << 550, 150 >>, << 575, 375 >>, << 10, 160 >>, << 310, 170 >> }

TaTempObstacleSets ==
  { {}, Column(3), Column(3) \ { << 3, 7 >> }, Column(8) \cup Column(9),
    Footprint(<< 0, 3 >>, 1), Footprint(<< 1, 1 >>, 1), Footprint(<< 11, 3 >>, 1),
    Footprint(<< 10, 6 >>, 1), Footprint(<< 5, 5 >>, 2),
    (Column(2) \ { << 2, 0 >> }) \cup (Column(4) \ { << 4, 7 >> }) }

TaInit ==
  /\ ta_start \in TaStarts
  /\ ta_goal \in TaGoals
  /\ ta_temp_obstacles \in TaTempObstacleSets
  /\ ta_pc = "call"
  /\ ta_open_set = {} /\ ta_known = {} /\ ta_visited = {}
  /\ ta_result = << >>
  /\ RouteIdle /\ CcIdle /\ OdIdle /\ FxIdle /\ AstarIdle
  /\ OrIdle /\ CqIdle /\ ApiIdle /\ PsIdle /\ SpIdle

\* the statements before the while loop
AstarWithTempObstacles ==
  /\ ta_pc = "call"
  /\ LET start_grid == ToGrid(ta_start)
         goal_grid == ToGrid(ta_goal)
     IN IF start_grid \notin Cells \/ goal_grid \notin Cells
        THEN /\ ta_result' = << << ta_start, ta_goal >> >>
             /\ ta_pc' = "done"
             /\ UNCHANGED << ta_open_set, ta_known >>
        ELSE IF start_grid \in grid \/ goal_grid \in grid
        THEN /\ ta_result' = << None >>
             /\ ta_pc' = "done"
             /\ UNCHANGED << ta_open_set, ta_known >>
        ELSE /\ ta_open_set' = { << 0, start_grid >> }
             /\ ta_known' = { << start_grid, 0, None >> }
             /\ ta_pc' = "loop"
             /\ UNCHANGED ta_result
  /\ UNCHANGED << ta_start, ta_goal, ta_temp_obstacles, ta_visited, route_vars, cc_vars,
                  od_vars, fx_vars, astar_vars, or_vars, cq_vars, api_vars, ps_vars, sp_vars >>

\* one iteration of the while loop
TaIteration ==
  /\ ta_pc = "loop"
  /\ ta_open_set # {}
  /\ LET top == HeapTop(ta_open_set)
         goal_grid == ToGrid(ta_goal)
     IN IF top[2] \in ta_visited
        THEN /\ ta_open_set' = ta_open_set \ { top }
             /\ UNCHANGED << ta_known, ta_visited, ta_result, ta_pc >>
        ELSE IF top[2] = goal_grid
        THEN /\ LET path == << ta_start >> \o ReconstructPath(top[2], ta_known, << >>)
                IN ta_result' = << SmoothPath([ path EXCEPT ![Len(path)] = ta_goal ]) >>
             /\ ta_pc' = "done"
             /\ ta_open_set' = ta_open_set \ { top }
             /\ ta_visited' = ta_visited \cup { top[2] }
             /\ UNCHANGED ta_known
        ELSE LET written == Relax(top[2], Entry(ta_known, top[2])[2], goal_grid,
                                  ta_temp_obstacles, ta_known, ta_visited)
             IN /\ ta_open_set' =
                     { e \in ta_open_set : e[2] # top[2] }
                       \cup { << w[2] + Heuristic(w[1], goal_grid), w[1] >> : w \in written }
                /\ ta_known' = { k \in ta_known : \A w \in written : w[1] # k[1] } \cup written
                /\ ta_visited' = ta_visited \cup { top[2] }
                /\ UNCHANGED << ta_result, ta_pc >>
  /\ UNCHANGED << ta_start, ta_goal, ta_temp_obstacles, route_vars, cc_vars, od_vars, fx_vars,
                  astar_vars, or_vars, cq_vars, api_vars, ps_vars, sp_vars >>

\* open_set is empty: return None
TaReturnNone ==
  /\ ta_pc = "loop"
  /\ ta_open_set = {}
  /\ ta_result' = << None >>
  /\ ta_pc' = "done"
  /\ UNCHANGED << ta_start, ta_goal, ta_temp_obstacles, ta_open_set, ta_known, ta_visited,
                  route_vars, cc_vars, od_vars, fx_vars, astar_vars, or_vars, cq_vars,
                  api_vars, ps_vars, sp_vars >>

TaNext == AstarWithTempObstacles \/ TaIteration \/ TaReturnNone

SpecGridAstar == TaInit /\ [][TaNext]_vars

\* a cell the search may move into
FreeCell(c, temp_obstacles) == c \in Cells /\ c \notin grid /\ c \notin temp_obstacles

Adjacent(a, b) == a # b /\ Abs(a[1] - b[1]) <= 1 /\ Abs(a[2] - b[2]) <= 1

RECURSIVE ReachableFrom(_, _)
\* the cells reached from the cells of S by 8-connected moves into free cells
ReachableFrom(S, temp_obstacles) ==
  LET more == { c \in Cells \ S : FreeCell(c, temp_obstacles) /\ \E d \in S : Adjacent(d, c) }
  IN IF more = {} THEN S ELSE ReachableFrom(S \cup more, temp_obstacles)

\* C29: for a start cell and a goal cell inside the grid and not static obstacles,
\* _astar_with_temp_obstacles returns a path if the goal cell is reached from the
\* start cell by 8-connected moves, each into a cell that is neither a static nor
\* a temporary obstacle, and returns None if it is not.
C29_PathIffGoalCellReachable ==
  (/\ ta_pc = "done"
   /\ ToGrid(ta_start) \in Cells \ grid /\ ToGrid(ta_goal) \in Cells \ grid)
  => (ta_result[1] # None
        <=> ToGrid(ta_goal) \in ReachableFrom({ ToGrid(ta_start) }, ta_temp_obstacles))

\* the temporary obstacles cut the goal off and the call returned None
C29_Witness ==
  /\ ta_pc = "done" /\ ta_result = << None >>
  /\ ToGrid(ta_start) \in Cells \ grid /\ ToGrid(ta_goal) \in Cells \ grid
  /\ ToGrid(ta_goal) \notin ta_temp_obstacles
  /\ ToGrid(ta_goal) \in ReachableFrom({ ToGrid(ta_start) }, {})

\* a path was returned although the start cell lies inside the temporary obstacles
C29_StartInsideFootprint ==
  /\ ta_pc = "done" /\ ta_result[1] # None
  /\ ToGrid(ta_start) \in ta_temp_obstacles /\ ToGrid(ta_start) # ToGrid(ta_goal)

\* a path was returned around temporary obstacles that block the straight line
C29_PathAroundWall ==
  /\ ta_pc = "done" /\ ta_result[1] # None
  /\ ta_temp_obstacles = Column(3) \ { << 3, 7 >> } /\ ToGrid(ta_goal)[1] > 3

-----------------------------------------------------------------------------
\* C30: check_collision is symmetric in its two routes: the interval list returned
\* for (ship1, ship2) is the one check_collision returns for (ship2, ship1).
C30_CheckCollisionSymmetric ==
  cc_pc = "done" => collision_intervals = check_collision(ship2, ship1)

\* two routes that differ in path, departure and speed, with a collision interval
C30_Witness ==
  /\ cc_pc = "done" /\ collision_intervals # << >>
  /\ ship1.path # ship2.path
  /\ ship1.departure_time < ship2.departure_time
  /\ ship1.speed_knots # ship2.speed_knots

=============================================================================
